---- MODULE Spec2Model ----
(***************************************************************************)
(* Model of the watcher / indexer core of sosie:                           *)
(*   - PersistentQueue        (src/src/watcher/DESIGN.md, queue.py)        *)
(*   - IndexerProcess workers (src/src/indexer/DESIGN.md, process.py)      *)
(*   - EventProcessor         (src/src/watcher/DESIGN.md,                  *)
(*                             event_processor.py)                         *)
(* Each component has its own specification over the shared variables:     *)
(*   Spec         PersistentQueue with two consumers and restarts          *)
(*   SpecIndexer  event queue + worker pool + VectorStore + search         *)
(*   SpecWatcher  raw notifications -> MoveCorrelator -> emitted events    *)
(***************************************************************************)
EXTENDS Integers, Sequences, FiniteSets, TLC

VARIABLES
    \* ---- PersistentQueue (Spec) ----
    queue,        \* the queue table: row i has id i; [payload, status]
    held,         \* consumer -> ids it received from dequeue and has not acked,
                  \* in the order it received them
    acked,        \* ids ever passed to ack
    ndeliv,       \* id -> number of times a dequeue returned it
    nrequeued,    \* id -> number of times requeue_unacked reset it
    restarts      \* number of requeue_unacked calls so far

queueVars == <<queue, held, acked, ndeliv, nrequeued, restarts>>

VARIABLES
    \* ---- IndexerProcess (SpecIndexer) ----
    evq,          \* the event queue table: row i = [payload: FileEvent, status]
    disk,         \* path -> content of the file on disk (0: no file)
    docs,         \* documents table: path -> content_hash (0: no row)
    chunks,       \* chunks table: path -> set of [idx, h]
    embeddings,   \* embeddings table: path -> set of [idx, h] (one per chunk)
    inhand,       \* events of the batch in hand that no worker has taken yet
    wk,           \* worker -> [pc, ev, h, old, same, wrote, called]
    retry,        \* events scheduled for a later retry (in memory)
    applied,      \* event ids whose processing reached the store (or skipped)
    nfail,        \* parse / embedding failures so far
    idxRestarts,  \* restarts so far
    seen          \* what the last search observed

indexerVars == <<evq, disk, docs, chunks, embeddings, inhand, wk, retry, applied, nfail,
                 idxRestarts, seen>>

VARIABLES
    \* ---- WatcherProcess: EventProcessor (SpecWatcher) ----
    now,             \* the clock, in ms
    roots,           \* RootManager: the watched roots
    pending_deletes, \* MoveCorrelator._pending_deletes: filename -> [path, time]
    debounce,        \* EventDebouncer._pending: entries [path, type, time],
                     \* in insertion order
    emitted,         \* the FileEvents enqueued on the event queue, in order
    rawLog           \* the raw notifications received so far, with their time

watcherVars == <<now, roots, pending_deletes, debounce, emitted, rawLog>>

VARIABLES
    \* ---- WatcherProcess: FlushThread and CommandConsumerThread (SpecRoots) ----
    outbox           \* FileEvents flush() has built and not yet enqueued

flushVars == <<outbox>>

VARIABLES
    \* ---- IndexerProcess: root lifecycle (SpecRootLife) ----
    rootRows,        \* the roots table: one row per root, in insertion order
    activity_log,    \* the activity log
    commands,        \* the command queue: WatcherCommands not yet applied
    rop,             \* the add_root / remove_root call in progress
    ret,             \* the last call that returned, with its result
    nops             \* calls made so far

rootVars == <<rootRows, activity_log, commands, rop, ret, nops>>

VARIABLES
    \* ---- WatcherProcess: lifecycle (SpecLife) ----
    state,           \* stopped, starting, running or stopping
    watcher_status,  \* the watcher_status table: the running flag
    observers,       \* FSWatcherPool: the roots with a running observer
    cmdHeld,         \* commands dequeued (processing) and not yet acked
    ncalls           \* start / stop calls and SHUTDOWN commands so far

lifeVars == <<state, watcher_status, observers, cmdHeld, ncalls>>

VARIABLES
    \* ---- operations checked on their own (search, embed, RootManager, resync) ----
    callArgs,        \* the arguments of the last call, with the data it ran on
    callResult       \* what the call returned

callVars == <<callArgs, callResult>>

VARIABLES
    \* ---- WatcherProcess: file listing and FSWatcherPool (SpecDir, SpecPool) ----
    tracked,         \* the files last known under the watched roots
    dropping,        \* roots deleted on disk whose files are reported, not yet dropped
    pool             \* FSWatcherPool: the observers, [root, id, alive]

trackVars == <<tracked, dropping, pool>>

VARIABLES
    \* ---- web client: conversationStore, authStore, ConversationPage ----
    sessions,         \* conversationStore.sessions
    activeSessionId,  \* conversationStore.activeSessionId (0: null)
    backend,          \* the agent server's sessions: [id, agentName, last_update_time]
    calls,            \* the asynchronous store calls made so far, each with its position
    wnow,             \* Date.now()
    auth,             \* authStore: user, isLoading, isRemote, and where init() is
    page              \* ConversationPage: isLoading, and where handleSubmit is

webVars == <<sessions, activeSessionId, backend, calls, wnow, auth, page>>

vars == <<queueVars, indexerVars, watcherVars, flushVars, rootVars, lifeVars, callVars, trackVars, webVars>>

(***************************************************************************)
(* Helpers                                                                 *)
(***************************************************************************)
Min(a, b) == IF a < b THEN a ELSE b

Range(s) == {s[i] : i \in 1..Len(s)}

\* the ids 1..n as a sequence, ascending (ORDER BY id)
IdSeq(n) == [i \in 1..n |-> i]

Increasing(s) == \A i, j \in 1..Len(s) : i < j => s[i] < s[j]

(***************************************************************************)
(* PersistentQueue                                                         *)
(***************************************************************************)
MaxQueue == 4        \* rows ever enqueued
MaxBatch == 2        \* largest batch_size a consumer asks for
MaxRestarts == 1     \* requeue_unacked calls

\* the producer's command stream: the i-th command it enqueues
PayloadOf(i) == IF i % 2 = 1 THEN "ADD_ROOT" ELSE "REMOVE_ROOT"
Consumers == {"c1", "c2"}
Statuses == {"pending", "processing", "done"}

\* INSERT INTO queue(payload) : AUTOINCREMENT id, status DEFAULT 'pending'
Enqueue(q, payload) == Append(q, [payload |-> payload, status |-> "pending"])

\* mutant: the filter only excludes finished rows
IsPending_NotDone(row) == row.status # "done"

\* WHERE status = 'pending'
IsPending(row) == row.status = "pending"

\* mutant: ORDER BY id DESC
OldestPending_Newest(q, n) ==
    LET pend == SelectSeq(IdSeq(Len(q)), LAMBDA i : IsPending(q[i]))
        k == Min(n, Len(pend))
    IN  [i \in 1..k |-> pend[Len(pend) + 1 - i]]

\* SELECT id FROM queue WHERE status='pending' ORDER BY id LIMIT n
OldestPending(q, n) ==
    LET pend == SelectSeq(IdSeq(Len(q)), LAMBDA i : IsPending(q[i]))
    IN  SubSeq(pend, 1, Min(n, Len(pend)))

\* UPDATE queue SET status = s WHERE id IN ids
SetStatus(q, ids, s) ==
    [i \in 1..Len(q) |-> IF i \in ids THEN [q[i] EXCEPT !.status = s] ELSE q[i]]

\* dequeue(batch_size): one transaction that selects the oldest pending rows
\* and marks them processing; the rows stay in the table
DequeueIds(q, n) == OldestPending(q, n)
DequeueTable(q, n) == SetStatus(q, Range(OldestPending(q, n)), "processing")

\* ack(ids): mark done
AckTable(q, ids) == SetStatus(q, ids, "done")

\* requeue_unacked(): every processing row back to pending
Unacked(q) == {i \in 1..Len(q) : q[i].status = "processing"}
\* mutant: recovery closes the in-flight rows instead of reopening them
RequeueTable_Close(q) == SetStatus(q, Unacked(q), "done")

RequeueTable(q) == SetStatus(q, Unacked(q), "pending")

(***************************************************************************)
(* IndexerProcess: event consumer, worker pool, VectorStore                *)
(***************************************************************************)
max_concurrent_files == 2   \* size of the worker pool (IndexerConfig)
MaxEvents == 2              \* FileEvents the watcher enqueues
max_count == 100            \* get_pending_events(max_count): size of a batch
MaxFail == 1                \* parse / embedding failures
MaxIdxRestarts == 1         \* restarts (requeue_unacked on the event queue)

Workers == 1..max_concurrent_files
IdxPaths == {"a.txt", "b.md"}
Contents == {1, 2}          \* two versions of a file's text; the hash of text h is h

\* Chunker: deterministic in the content; text 1 gives one chunk, text 2 two
NChunks(h) == h
ChunkSet(h) == {[idx |-> i, h |-> h] : i \in 1..NChunks(h)}

\* mutant: the chunks are stored without their embeddings
EmbeddingsOf_None(cs) == {}

\* _handle_add_or_update 6: one embedding per chunk (EmbeddedChunk)
EmbeddingsOf(cs) == cs

\* mutant: the hash is not compared
DocumentExists_Never(d, p, h) == FALSE

\* VectorStore.document_exists(path, content_hash)
DocumentExists(d, p, h) == d[p] = h

\* mutant: no cascade, the rows of the document stay
RemoveRows_Keep(t, p) == t

\* VectorStore.remove_document(path): the row and, by cascade, its chunks and
\* their embeddings
RemoveRows(t, p) == [t EXCEPT ![p] = {}]
RemoveDoc(d, p) == [d EXCEPT ![p] = 0]

\* VectorStore.search restricted to one document: a chunk is found through
\* its embedding
SearchHits(p) == chunks[p] \cap embeddings[p]

IdleWorker == [pc |-> "idle", ev |-> 0, h |-> 0, old |-> 0,
               same |-> FALSE, wrote |-> FALSE, called |-> FALSE]

\* the path of an event, and of the event a worker is at
PathOf(e) == evq[e].payload.path
TypeOf(e) == evq[e].payload.type
OldPathOf(e) == evq[e].payload.old_path
IsAddOrUpdate(e) == TypeOf(e) \in {"ADD", "UPDATE"}

\* mutant: the rows of the old path are dropped, none appear under the new
MoveRows_Drop(t, old, new, empty) == [t EXCEPT ![old] = empty]

\* _handle_move 1-2: update the file path in the store, keep chunks and
\* embeddings (they follow their document)
MoveRows(t, old, new, empty) == [t EXCEPT ![new] = t[old], ![old] = empty]

BusyPcs == {"remove", "embed", "store", "ack"}
Processing(w) == wk[w].pc \in BusyPcs

\* mutant: no per-path serialization
PathFree_Always(w, p) == TRUE

\* per-path serialization: nobody else is processing p
PathFree(w, p) == \A v \in Workers \ {w} : ~(Processing(v) /\ PathOf(wk[v].ev) = p)

\* mutant: a failed event is not kept for a retry
RetryLater_Drop(r, e) == r

\* a failed event is put on the retry queue
RetryLater(r, e) == r \cup {e}

\* the events a free worker w may take up: in hand or due for retry, their path
\* free, and no older event of the same path waiting in hand
Takeable(w) ==
    {e \in inhand \cup retry :
        /\ PathFree(w, PathOf(e))
        /\ \A o \in inhand : PathOf(o) = PathOf(e) => e <= o}

(***************************************************************************)
(* WatcherProcess: RootManager, MoveCorrelator, EventDebouncer             *)
(***************************************************************************)
MOVE_CORRELATION_WINDOW_MS == 100
DEBOUNCE_WINDOW_MS == 50

MaxRaw == 2        \* raw notifications received
MaxTicks == 3      \* clock ticks

\* the clock advances in steps of one debounce window
TickMs == DEBOUNCE_WINDOW_MS

\* paths are sequences of components; <<>> stands for None
None == <<>>
DocA == <<"r1", "a", "doc.pdf">>
Doc2A == <<"r1", "a", "doc2.pdf">>
DocR2 == <<"r2", "doc.pdf">>
DocOut == <<"out", "doc.pdf">>
WPaths == {DocA, Doc2A, DocR2, DocOut}
InitialRoots == {<<"r1">>, <<"r2">>}

\* path.name
Name(p) == p[Len(p)]

IsPrefix(r, p) == Len(r) <= Len(p) /\ SubSeq(p, 1, Len(r)) = r

\* RootManager.find_root_for_path: the longest watched root that is a prefix
FindRoot(rs, p) ==
    LET cands == {r \in rs : IsPrefix(r, p)}
    IN  IF cands = {} THEN None
        ELSE CHOOSE r \in cands : \A o \in cands : Len(o) <= Len(r)

FileEvent(type, path, root, old_path, old_root) ==
    [type |-> type, path |-> path, root |-> root,
     old_path |-> old_path, old_root |-> old_root]

NoEvent == FileEvent("NONE", None, None, None, None)

\* mutant: the branch for a destination outside all roots is missing
HandleMove_NoDegrade(rs, src, dest) ==
    LET src_root == FindRoot(rs, src)
        dest_root == FindRoot(rs, dest)
    IN  IF src_root # None /\ dest_root # None
        THEN FileEvent("MOVE", dest, dest_root, src, src_root)
        ELSE IF src_root = None /\ dest_root # None
        THEN FileEvent("ADD", dest, dest_root, None, None)
        ELSE NoEvent

\* mutant: root membership is ignored, every pair is reported as a MOVE
HandleMove_AlwaysMove(rs, src, dest) ==
    FileEvent("MOVE", dest, FindRoot(rs, dest), src, FindRoot(rs, src))

\* EventProcessor._handle_move
HandleMove(rs, src, dest) ==
    LET src_root == FindRoot(rs, src)
        dest_root == FindRoot(rs, dest)
    IN  IF src_root # None /\ dest_root # None
        THEN FileEvent("MOVE", dest, dest_root, src, src_root)
        ELSE IF src_root # None /\ dest_root = None
        THEN FileEvent("DELETE", src, src_root, None, None)
        ELSE IF src_root = None /\ dest_root # None
        THEN FileEvent("ADD", dest, dest_root, None, None)
        ELSE NoEvent

\* dict operations on _pending_deletes
DictSet(d, k, v) == [x \in DOMAIN d \cup {k} |-> IF x = k THEN v ELSE d[x]]
DictPop(d, k) == [x \in DOMAIN d \ {k} |-> d[x]]

\* MoveCorrelator.on_delete: remember the delete under its filename, defer
OnDelete(pd, path, t) == DictSet(pd, Name(path), [path |-> path, time |-> t])

\* mutant: a create is matched with any pending delete, whatever its filename
PendingKey_Any(pd, path) == DOMAIN pd

\* MoveCorrelator.on_create: "if filename in self._pending_deletes": the
\* keys of the pending deletes the create is matched with (none or one)
PendingKey(pd, path) == {k \in DOMAIN pd : k = Name(path)}

\* MoveCorrelator.on_create: the event returned
OnCreateEvent(rs, pd, path, t) ==
    LET ks == PendingKey(pd, path)
        k == CHOOSE x \in ks : TRUE
    IN  IF ks # {} /\ t - pd[k].time < MOVE_CORRELATION_WINDOW_MS
        THEN HandleMove(rs, pd[k].path, path)
        ELSE FileEvent("ADD", path, FindRoot(rs, path), None, None)

\* MoveCorrelator.on_create: the pending delete is popped whenever the
\* filename matches
OnCreatePending(pd, path) ==
    LET ks == PendingKey(pd, path)
    IN  IF ks # {} THEN DictPop(pd, CHOOSE x \in ks : TRUE) ELSE pd

\* MoveCorrelator.flush_expired: the deletes whose window has elapsed
Expired(pd, t) ==
    {k \in DOMAIN pd : t - pd[k].time >= MOVE_CORRELATION_WINDOW_MS}

\* mutant: no coalescing, the new event replaces the pending one
Coalesce_Replace(old, new) == new

\* EventDebouncer coalescing rules: the type that results from a pending
\* event followed by a new one ("NONE": they cancel out)
Coalesce(old, new) ==
    IF old = "UPDATE" /\ new = "UPDATE" THEN "UPDATE"
    ELSE IF old = "ADD" /\ new = "UPDATE" THEN "ADD"
    ELSE IF old = "ADD" /\ new = "DELETE" THEN "NONE"
    ELSE IF old = "DELETE" /\ new = "ADD" THEN "UPDATE"
    ELSE new

\* EventDebouncer.add(path, event_type, timestamp)
DebounceAdd(db, path, type, t) ==
    IF \E i \in 1..Len(db) : db[i].path = path
    THEN LET i == CHOOSE k \in 1..Len(db) : db[k].path = path
             merged == Coalesce(db[i].type, type)
         IN  IF merged = "NONE"
             THEN SubSeq(db, 1, i - 1) \o SubSeq(db, i + 1, Len(db))
             ELSE [db EXCEPT ![i].type = merged]
    ELSE Append(db, [path |-> path, type |-> type, time |-> t])

\* what process() does with the event the correlator returned: a MOVE goes
\* out as it is, an ADD or DELETE goes through the debouncer
AfterCorrelator(db, ev, t) ==
    IF ev.type \in {"ADD", "DELETE"} THEN DebounceAdd(db, ev.path, ev.type, t) ELSE db

EmitMove(out, ev) == IF ev.type = "MOVE" THEN Append(out, ev) ELSE out

\* the expired deletes enter the debouncer as DELETE, oldest first
RECURSIVE AddExpired(_, _, _, _)
AddExpired(db, pd, ks, t) ==
    IF ks = {} THEN db
    ELSE LET k == CHOOSE x \in ks : \A y \in ks : pd[x].time <= pd[y].time
         IN  AddExpired(DebounceAdd(db, pd[k].path, "DELETE", t), pd, ks \ {k}, t)

\* EventDebouncer.flush: the entries older than the debounce window
Due(e, t) == t - e.time >= DEBOUNCE_WINDOW_MS

\* the FileEvents of the due entries, in insertion order; an entry whose path
\* is under no root gives no FileEvent (FileEvent.root is not optional)
RECURSIVE FlushEvents(_, _, _)
FlushEvents(db, rs, t) ==
    IF db = <<>> THEN <<>>
    ELSE LET e == Head(db)
             rest == FlushEvents(Tail(db), rs, t)
         IN  IF Due(e, t) /\ FindRoot(rs, e.path) # None
             THEN <<FileEvent(e.type, e.path, FindRoot(rs, e.path), None, None)>> \o rest
             ELSE rest

(***************************************************************************)
(* IndexerProcess: root lifecycle (add_root, remove_root)                  *)
(***************************************************************************)
MaxRootOps == 3    \* add_root / remove_root calls

IdleOp == [op |-> "none", root |-> <<>>, pc |-> "idle"]
NoReturn == [op |-> "none", root |-> <<>>, value |-> FALSE]

\* the root a document path lies under
IdxRootOf(p) == IF p = "a.txt" THEN <<"r1">> ELSE <<"r2">>

\* mutant: the check for an existing row is skipped
RootExists_Never(rows, r) == FALSE

\* add_root 1: check DB
RootExists(rows, r) == \E i \in 1..Len(rows) : rows[i] = r

\* remove_root 1: remove from VectorStore: every document under the root,
\* with (cascade) its chunks and embeddings
RemoveRootDocs(t, r, empty) ==
    [p \in DOMAIN t |-> IF IdxRootOf(p) = r THEN empty ELSE t[p]]

\* remove_root 2: DELETE FROM roots
DeleteRootRow(rows, r) == SelectSeq(rows, LAMBDA x : x # r)

(***************************************************************************)
(* State after construction                                                *)
(***************************************************************************)
IndexerInit ==
    /\ evq = <<>>
    /\ disk = [p \in IdxPaths |-> 0]
    /\ docs = [p \in IdxPaths |-> 0]
    /\ chunks = [p \in IdxPaths |-> {}]
    /\ embeddings = [p \in IdxPaths |-> {}]
    /\ inhand = {}
    /\ wk = [w \in Workers |-> IdleWorker]
    /\ retry = {}
    /\ applied = {}
    /\ nfail = 0
    /\ idxRestarts = 0
    /\ seen = [path |-> "none", hits |-> {}, old |-> 0, new |-> 0]

\* the indexer starts on a store that persists from an earlier run: b.md is
\* on disk and indexed
IndexedInit ==
    /\ evq = <<>>
    /\ disk = [p \in IdxPaths |-> IF p = "b.md" THEN 1 ELSE 0]
    /\ docs = [p \in IdxPaths |-> IF p = "b.md" THEN 1 ELSE 0]
    /\ chunks = [p \in IdxPaths |-> IF p = "b.md" THEN ChunkSet(1) ELSE {}]
    /\ embeddings = [p \in IdxPaths |-> IF p = "b.md" THEN EmbeddingsOf(ChunkSet(1)) ELSE {}]
    /\ inhand = {}
    /\ wk = [w \in Workers |-> IdleWorker]
    /\ retry = {}
    /\ applied = {}
    /\ nfail = 0
    /\ idxRestarts = 0
    /\ seen = [path |-> "none", hits |-> {}, old |-> 0, new |-> 0]

WatcherInit ==
    /\ now = 0
    /\ roots = InitialRoots
    /\ pending_deletes = <<>>
    /\ debounce = <<>>
    /\ emitted = <<>>
    /\ rawLog = <<>>
    /\ outbox = <<>>

\* the persisted roots are the roots the watcher loaded at start-up
RootInit ==
    /\ rootRows = <<<<"r1">>, <<"r2">>>>
    /\ activity_log = <<>>
    /\ commands = <<>>
    /\ rop = IdleOp
    /\ ret = NoReturn
    /\ nops = 0

\* the watcher has been started: it runs, with one observer per loaded root
LifeInit ==
    /\ state = "running"
    /\ watcher_status = TRUE
    /\ observers = InitialRoots
    /\ cmdHeld = <<>>
    /\ ncalls = 0

NoCall == [op |-> "none"]

CallInit ==
    /\ callArgs = NoCall
    /\ callResult = NoCall

QueueInit ==
    /\ queue = <<>>
    /\ held = [c \in Consumers |-> <<>>]
    /\ acked = {}
    /\ ndeliv = <<>>
    /\ nrequeued = <<>>
    /\ restarts = 0

QEnqueue ==
    /\ Len(queue) < MaxQueue
    /\ queue' = Enqueue(queue, PayloadOf(Len(queue) + 1))
    /\ ndeliv' = Append(ndeliv, 0)
    /\ nrequeued' = Append(nrequeued, 0)
    /\ UNCHANGED <<held, acked, restarts, indexerVars, watcherVars, flushVars, rootVars, lifeVars, callVars,
                   trackVars, webVars>>

\* a consumer asks for its next batch once it is through with the last one
QDequeue ==
    \E c \in Consumers, n \in 1..MaxBatch :
        LET ids == DequeueIds(queue, n) IN
        /\ held[c] = <<>>
        /\ queue' = DequeueTable(queue, n)
        /\ held' = [held EXCEPT ![c] = @ \o ids]
        /\ ndeliv' = [i \in 1..Len(ndeliv) |->
                        IF i \in Range(ids) THEN ndeliv[i] + 1 ELSE ndeliv[i]]
        /\ UNCHANGED <<acked, nrequeued, restarts, indexerVars, watcherVars, flushVars, rootVars, lifeVars, callVars,
                   trackVars, webVars>>

QAck ==
    \E c \in Consumers :
        \E ids \in (SUBSET Range(held[c])) \ {{}} :
            /\ queue' = AckTable(queue, ids)
            /\ held' = [held EXCEPT ![c] = SelectSeq(@, LAMBDA i : i \notin ids)]
            /\ acked' = acked \cup ids
            /\ UNCHANGED <<ndeliv, nrequeued, restarts, indexerVars, watcherVars, flushVars, rootVars, lifeVars, callVars,
                   trackVars, webVars>>

\* a consumer gives up on the rest of its batch (processing failed): the rows
\* are left unacked, in status processing
QAbandon ==
    \E c \in Consumers :
        /\ held[c] # <<>>
        /\ held' = [held EXCEPT ![c] = <<>>]
        /\ UNCHANGED <<queue, acked, ndeliv, nrequeued, restarts, indexerVars, watcherVars, flushVars, rootVars, lifeVars, callVars,
                   trackVars, webVars>>

\* requeue_unacked at a start-up.  crash = TRUE: the consumers' process went
\* down too and forgot what it held; crash = FALSE: the queue's owner restarts
\* while a consumer in another process still works on its batch.
QRequeueUnacked ==
    /\ restarts < MaxRestarts
    /\ \E crash \in BOOLEAN :
        held' = IF crash THEN [c \in Consumers |-> <<>>] ELSE held
    /\ queue' = RequeueTable(queue)
    /\ nrequeued' = [i \in 1..Len(nrequeued) |->
                        IF i \in Unacked(queue) THEN nrequeued[i] + 1 ELSE nrequeued[i]]
    /\ restarts' = restarts + 1
    /\ UNCHANGED <<acked, ndeliv, indexerVars, watcherVars, flushVars, rootVars, lifeVars, callVars, trackVars,
                   webVars>>

\* the files under the loaded roots are listed, each root has its observer
TrackInit ==
    /\ tracked = {p \in WPaths : FindRoot(InitialRoots, p) # None}
    /\ dropping = {}
    /\ pool = {[root |-> r, id |-> 0, alive |-> TRUE] : r \in InitialRoots}

\* the web client after the stores are created and before App's first effect
WebInit ==
    /\ sessions = <<>>
    /\ activeSessionId = 0
    /\ backend = <<>>
    /\ calls = <<>>
    /\ wnow = 1000
    /\ auth = [user |-> "null", isLoading |-> TRUE, isRemote |-> "null", pc |-> "mount"]
    /\ page = [isLoading |-> FALSE, pc |-> "idle", sessionId |-> 0,
               assistantMsgIndex |-> 0, assistantContent |-> "",
               collectedSources |-> {}, hasSourcesPanel |-> FALSE,
               events |-> 0, submits |-> 0]

Init ==
    QueueInit /\ IndexerInit /\ WatcherInit /\ RootInit /\ LifeInit /\ CallInit
        /\ TrackInit /\ WebInit

InitIndexed ==
    QueueInit /\ IndexedInit /\ WatcherInit /\ RootInit /\ LifeInit /\ CallInit
        /\ TrackInit /\ WebInit

QNext == QEnqueue \/ QDequeue \/ QAck \/ QAbandon \/ QRequeueUnacked

Spec == Init /\ [][QNext]_vars

(***************************************************************************)
(* Claims about PersistentQueue                                            *)
(***************************************************************************)
QIds == 1..Len(queue)
QPending == {i \in QIds : queue[i].status = "pending"}
QFree == {c \in Consumers : held[c] = <<>>}

\* every row ever enqueued is still in the table with its payload, and a row
\* that was not acked is pending or processing
QNoLossState ==
    /\ Len(queue) = Len(ndeliv)
    /\ \A i \in QIds :
        /\ queue[i].payload = PayloadOf(i)
        /\ queue[i].status \in Statuses
        /\ i \notin acked => queue[i].status \in {"pending", "processing"}

\* the oldest pending row is what the next dequeue of a free consumer returns
QOldestIsNext ==
    \A i \in QPending :
        (QFree # {} /\ \A j \in QPending : i <= j)
            => ENABLED (QDequeue /\ ndeliv'[i] = ndeliv[i] + 1)

\* a requeue_unacked step leaves every unacked row pending
QRequeueStep ==
    restarts' # restarts =>
        \A i \in QIds : i \notin acked => queue'[i].status = "pending"

\* C1: PersistentQueue loses no message: whatever the interleaving of
\* enqueue, dequeue, ack and restart, every enqueued row that was not acked is
\* pending or processing (with its payload); right after requeue_unacked every
\* such row is pending; and a pending row is returned by the dequeue calls
\* that follow (the oldest pending row by the very next one).
C1_NoMessageLoss ==
    /\ [](QNoLossState /\ QOldestIsNext)
    /\ [][QRequeueStep]_vars

\* C1 witness: after a crash with two rows in flight and one never dequeued,
\* requeue_unacked has run and all three unacked rows are pending again
C1_Witness ==
    /\ restarts = 1
    /\ Len(queue) = 4
    /\ acked = {1}
    /\ nrequeued = <<0, 1, 1, 0>>
    /\ \A i \in 2..4 : queue[i].status = "pending"
    /\ \A c \in Consumers : held[c] = <<>>

\* the batch a dequeue step hands to consumer c
QBatch(c) == held'[c]
QDequeueStepOf(c) == held[c] = <<>> /\ held'[c] # <<>>

\* a batch holds the oldest pending rows, oldest first
QFifoStep ==
    \A c \in Consumers :
        QDequeueStepOf(c) =>
            /\ Increasing(QBatch(c))
            /\ Len(QBatch(c)) <= MaxBatch
            /\ \A k \in Range(QBatch(c)) : k \in QPending
            /\ \A j \in QPending \ Range(QBatch(c)) :
                    \A k \in Range(QBatch(c)) : k < j

\* no pending row is older than a row that is in flight
QFifoState ==
    \A i, j \in QIds :
        (i < j /\ queue[j].status = "processing") => queue[i].status # "pending"

\* C2: PersistentQueue is FIFO: every dequeue returns the oldest pending rows
\* in enqueue order, so a row is never in flight while an older row is still
\* pending; after a crash and requeue_unacked the unacked rows (in flight or
\* never dequeued) are redelivered in their original order.
C2_Fifo ==
    /\ []QFifoState
    /\ [][QFifoStep]_vars

\* C2 witness: rows 1,2 were in flight at the crash, rows 3,4 were not; after
\* requeue_unacked all four were redelivered, in the order 1,2,3,4
C2_Witness ==
    /\ restarts = 1
    /\ acked = {}
    /\ nrequeued = <<1, 1, 0, 0>>
    /\ ndeliv = <<2, 2, 1, 1>>
    /\ held["c1"] = <<1, 2>>
    /\ held["c2"] = <<3, 4>>

\* a dequeue returns only rows that were pending; a done row stays done
QDeliverStep ==
    \A i \in QIds :
        /\ ndeliv'[i] > ndeliv[i] => queue[i].status = "pending"
        /\ queue[i].status = "done" =>
                (queue'[i].status = "done" /\ ndeliv'[i] = ndeliv[i])

\* C3: a row is delivered once, plus once for every requeue_unacked that
\* found it in status processing: a dequeue never returns a row that is in
\* processing (also not to a second consumer) or done, and an acked row is
\* never returned again, also after requeue_unacked.
C3_NoDuplicateDelivery ==
    /\ [](\A i \in QIds : ndeliv[i] <= 1 + nrequeued[i])
    /\ [][QDeliverStep]_vars

\* C3 witness: both consumers hold a batch at the same time, after a restart
\* that found row 2 in flight and row 1 acked: row 1 was not delivered again
C3_Witness ==
    /\ restarts = 1
    /\ acked = {1}
    /\ ndeliv = <<1, 2, 1, 1>>
    /\ nrequeued = <<0, 1, 0, 0>>
    /\ held["c1"] = <<2, 3>>
    /\ held["c2"] = <<4>>

(***************************************************************************)
(* IndexerProcess: operations                                              *)
(***************************************************************************)
\* the file system changes and the watcher enqueues the FileEvent
FsWrite ==
    \E p \in IdxPaths, h \in Contents :
        /\ Len(evq) < MaxEvents
        /\ disk' = [disk EXCEPT ![p] = h]
        /\ evq' = Enqueue(evq, [type |-> IF disk[p] = 0 THEN "ADD" ELSE "UPDATE",
                                path |-> p])
        /\ UNCHANGED <<docs, chunks, embeddings, inhand, wk, retry, applied, nfail,
                       idxRestarts, seen, queueVars, watcherVars, flushVars, rootVars, lifeVars, callVars,
                       trackVars, webVars>>

FsDelete ==
    \E p \in IdxPaths :
        /\ Len(evq) < MaxEvents
        /\ disk[p] # 0
        /\ disk' = [disk EXCEPT ![p] = 0]
        /\ evq' = Enqueue(evq, [type |-> "DELETE", path |-> p])
        /\ UNCHANGED <<docs, chunks, embeddings, inhand, wk, retry, applied, nfail,
                       idxRestarts, seen, queueVars, watcherVars, flushVars, rootVars, lifeVars, callVars,
                       trackVars, webVars>>

\* the process loop polls the event queue for the next batch once the last
\* one is handed out
Poll ==
    /\ inhand = {}
    /\ DequeueIds(evq, max_count) # <<>>
    /\ evq' = DequeueTable(evq, max_count)
    /\ inhand' = Range(DequeueIds(evq, max_count))
    /\ UNCHANGED <<disk, docs, chunks, embeddings, wk, retry, applied, nfail,
                   idxRestarts, seen, queueVars, watcherVars, flushVars, rootVars, lifeVars, callVars,
                   trackVars, webVars>>

\* process_event, ADD/UPDATE (_handle_add_or_update 1-2): the parse fails:
\* log, schedule a retry, the event stays unacked
WParseFail(w) ==
    \E e \in Takeable(w) :
        /\ wk[w].pc = "idle"
        /\ IsAddOrUpdate(e)
        /\ nfail < MaxFail
        /\ nfail' = nfail + 1
        /\ inhand' = inhand \ {e}
        /\ retry' = RetryLater(retry, e)
        /\ UNCHANGED <<evq, disk, docs, chunks, embeddings, wk, applied,
                       idxRestarts, seen, queueVars, watcherVars, flushVars, rootVars, lifeVars, callVars,
                       trackVars, webVars>>

\* process_event, ADD/UPDATE (_handle_add_or_update 1-3): parse, then the
\* hash check: unchanged content is skipped
WParse(w) ==
    \E e \in Takeable(w) :
        LET p == PathOf(e)
            h == disk[p]
        IN  /\ wk[w].pc = "idle"
            /\ IsAddOrUpdate(e)
            /\ h # 0
            /\ inhand' = inhand \ {e}
            /\ retry' = retry \ {e}
            /\ wk' = [wk EXCEPT ![w] =
                        [IdleWorker EXCEPT
                            !.ev = e, !.h = h, !.old = docs[p],
                            !.same = (docs[p] = h),
                            !.pc = IF DocumentExists(docs, p, h) THEN "ack"
                                   ELSE IF docs[p] # 0 THEN "remove"
                                   ELSE "embed"]]
            /\ applied' = IF DocumentExists(docs, p, h)
                          THEN applied \cup {e} ELSE applied
            /\ UNCHANGED <<evq, disk, docs, chunks, embeddings, nfail,
                           idxRestarts, seen, queueVars, watcherVars, flushVars, rootVars, lifeVars, callVars,
                           trackVars, webVars>>

\* process_event, DELETE (_handle_delete), and an ADD/UPDATE whose file is
\* gone (treated as a delete event): remove the document; the cascade takes
\* its chunks and embeddings
WDelete(w) ==
    \E e \in Takeable(w) :
        LET p == PathOf(e)
        IN  /\ wk[w].pc = "idle"
            /\ TypeOf(e) = "DELETE" \/ (IsAddOrUpdate(e) /\ disk[p] = 0)
            /\ inhand' = inhand \ {e}
            /\ retry' = retry \ {e}
            /\ docs' = RemoveDoc(docs, p)
            /\ chunks' = RemoveRows(chunks, p)
            /\ embeddings' = RemoveRows(embeddings, p)
            /\ applied' = applied \cup {e}
            /\ wk' = [wk EXCEPT ![w] =
                        [IdleWorker EXCEPT !.ev = e, !.pc = "ack",
                                           !.wrote = (docs[p] # 0)]]
            /\ UNCHANGED <<evq, disk, nfail, idxRestarts, seen, queueVars, watcherVars, flushVars, rootVars, lifeVars, callVars,
                   trackVars, webVars>>

\* _handle_add_or_update 4: remove old chunks if update
WRemoveOld(w) ==
    LET p == PathOf(wk[w].ev)
    IN  /\ wk[w].pc = "remove"
        /\ docs' = RemoveDoc(docs, p)
        /\ chunks' = RemoveRows(chunks, p)
        /\ embeddings' = RemoveRows(embeddings, p)
        /\ wk' = [wk EXCEPT ![w].pc = "embed", ![w].wrote = TRUE]
        /\ UNCHANGED <<evq, disk, inhand, retry, applied, nfail, idxRestarts, seen, queueVars, watcherVars, flushVars, rootVars, lifeVars, callVars,
                   trackVars, webVars>>

\* _handle_add_or_update 5-6: chunk, then the embedding call returns
WEmbed(w) ==
    /\ wk[w].pc = "embed"
    /\ wk' = [wk EXCEPT ![w].pc = "store", ![w].called = TRUE]
    /\ UNCHANGED <<evq, disk, docs, chunks, embeddings, inhand, retry, applied, nfail,
                   idxRestarts, seen, queueVars, watcherVars, flushVars, rootVars, lifeVars, callVars,
                   trackVars, webVars>>

\* the embedding call fails with its retries exhausted: the event is requeued
\* for later
WEmbedFail(w) ==
    /\ wk[w].pc = "embed"
    /\ nfail < MaxFail
    /\ nfail' = nfail + 1
    /\ retry' = RetryLater(retry, wk[w].ev)
    /\ wk' = [wk EXCEPT ![w] = IdleWorker]
    /\ UNCHANGED <<evq, disk, docs, chunks, embeddings, inhand, applied,
                   idxRestarts, seen, queueVars, watcherVars, flushVars, rootVars, lifeVars, callVars,
                   trackVars, webVars>>

\* _handle_add_or_update 7: store document + chunks + embeddings
WStore(w) ==
    LET p == PathOf(wk[w].ev)
        h == wk[w].h
    IN  /\ wk[w].pc = "store"
        /\ docs' = [docs EXCEPT ![p] = h]
        /\ chunks' = [chunks EXCEPT ![p] = ChunkSet(h)]
        /\ embeddings' = [embeddings EXCEPT ![p] = EmbeddingsOf(ChunkSet(h))]
        /\ applied' = applied \cup {wk[w].ev}
        /\ wk' = [wk EXCEPT ![w].pc = "ack", ![w].wrote = TRUE]
        /\ UNCHANGED <<evq, disk, inhand, retry, nfail, idxRestarts, seen,
                       queueVars, watcherVars, flushVars, rootVars, lifeVars, callVars,
                       trackVars, webVars>>

\* the event is acked and the worker is free again
WAck(w) ==
    /\ wk[w].pc = "ack"
    /\ evq' = AckTable(evq, {wk[w].ev})
    /\ wk' = [wk EXCEPT ![w] = IdleWorker]
    /\ UNCHANGED <<disk, docs, chunks, embeddings, inhand, retry, applied, nfail,
                   idxRestarts, seen, queueVars, watcherVars, flushVars, rootVars, lifeVars, callVars,
                   trackVars, webVars>>

\* a search runs against the store as it is now; it notes whether the
\* document it looks at is being re-indexed (old content -> new content)
Search ==
    \E p \in IdxPaths :
        LET ws == {w \in Workers : /\ wk[w].pc \in {"remove", "embed", "store"}
                                   /\ PathOf(wk[w].ev) = p
                                   /\ wk[w].old # 0}
        IN  /\ seen' = [path |-> p, hits |-> SearchHits(p),
                        old |-> IF ws = {} THEN 0 ELSE wk[CHOOSE w \in ws : TRUE].old,
                        new |-> IF ws = {} THEN 0 ELSE wk[CHOOSE w \in ws : TRUE].h]
            /\ UNCHANGED <<evq, disk, docs, chunks, embeddings, inhand, wk, retry, applied,
                           nfail, idxRestarts, queueVars, watcherVars, flushVars, rootVars, lifeVars, callVars,
                           trackVars, webVars>>

\* start-up: requeue_unacked on the event queue.  crash = TRUE: the indexer
\* went down, its workers and retry schedule are gone; crash = FALSE: only
\* the watcher restarted (it replays requeue_unacked on both queues)
IdxRestart ==
    \E crash \in BOOLEAN :
        /\ idxRestarts < MaxIdxRestarts
        /\ idxRestarts' = idxRestarts + 1
        /\ evq' = RequeueTable(evq)
        /\ wk' = IF crash THEN [w \in Workers |-> IdleWorker] ELSE wk
        /\ retry' = IF crash THEN {} ELSE retry
        /\ inhand' = IF crash THEN {} ELSE inhand
        /\ UNCHANGED <<disk, docs, chunks, embeddings, applied, nfail,
                       seen, queueVars, watcherVars, flushVars, rootVars, lifeVars, callVars,
                       trackVars, webVars>>

IndexerNext ==
    \/ FsWrite
    \/ FsDelete
    \/ IdxRestart
    \/ Poll
    \/ \E w \in Workers :
        \/ WParseFail(w)
        \/ WParse(w)
        \/ WDelete(w)
        \/ WRemoveOld(w)
        \/ WEmbed(w)
        \/ WEmbedFail(w)
        \/ WStore(w)
        \/ WAck(w)

SpecIndexer == Init /\ [][IndexerNext]_vars

\* the indexer with its threads scheduled fairly: the process loop keeps
\* polling and every worker that can take a step eventually takes one
IndexerFairness ==
    /\ WF_vars(Poll)
    /\ \A w \in Workers :
        /\ WF_vars(WParse(w) \/ WDelete(w))
        /\ WF_vars(WRemoveOld(w))
        /\ WF_vars(WEmbed(w))
        /\ WF_vars(WStore(w))
        /\ WF_vars(WAck(w))

SpecIndexerFair == Init /\ [][IndexerNext]_vars /\ IndexerFairness

\* the indexer with searches running next to the workers
SearchNext == IndexerNext \/ Search

SpecSearch == Init /\ [][SearchNext]_vars

(***************************************************************************)
(* Claims about IndexerProcess                                             *)
(***************************************************************************)
EvIds == 1..Len(evq)
WorkersAt(p) == {w \in Workers : Processing(w) /\ PathOf(wk[w].ev) = p}

\* C4 (as claimed): for every path, the events are applied in the order they
\* were enqueued: when an event has been applied, every older event of the
\* same path has been applied before it, also with failed events waiting for
\* their retry and with redelivery after a restart.
C4_PerPathOrder ==
    \A e \in applied :
        \A o \in EvIds : (o < e /\ PathOf(o) = PathOf(e)) => o \in applied

\* C5: no path is processed by two workers at the same time, and at most
\* max_concurrent_files files are in processing at once (files of different
\* paths may be: see the witness).
C5_PathSerialized ==
    /\ \A p \in IdxPaths : Cardinality(WorkersAt(p)) <= 1
    /\ Cardinality({w \in Workers : Processing(w)}) <= max_concurrent_files

\* C5 witness: two workers are processing, each a different path
C5_Witness ==
    \E w, v \in Workers :
        /\ w # v
        /\ Processing(w) /\ Processing(v)
        /\ wk[w].pc = "embed" /\ wk[v].pc = "embed"
        /\ PathOf(wk[w].ev) # PathOf(wk[v].ev)

\* C6 (as claimed): a search that looks at a document while it is re-indexed
\* (old content -> new content) finds either all chunks of the old content or
\* all chunks of the new content, never none and never a mix.
C6_SearchNeverHalfUpdated ==
    seen.old # 0 => seen.hits \in {ChunkSet(seen.old), ChunkSet(seen.new)}

\* an event whose parsed hash equals the stored hash goes straight to its ack:
\* no table is written and the embedding provider is not called
SkipState ==
    \A w \in Workers :
        wk[w].same => (wk[w].pc = "ack" /\ ~wk[w].wrote /\ ~wk[w].called)

StoreUnchanged == docs' = docs /\ chunks' = chunks /\ embeddings' = embeddings

\* taking up an event whose file has the content the store already holds
\* (the event is applied a second time, or the content did not change)
\* writes nothing
SkipStep ==
    \A w \in Workers :
        (/\ wk[w].pc = "idle" /\ wk'[w].pc # "idle"
         /\ TypeOf(wk'[w].ev) # "DELETE"
         /\ disk[PathOf(wk'[w].ev)] # 0
         /\ docs[PathOf(wk'[w].ev)] = disk[PathOf(wk'[w].ev)])
        => (StoreUnchanged /\ wk'[w].pc = "ack" /\ wk'[w].same)

\* the store step leaves the document with the parsed hash and exactly the
\* chunks and embeddings of that content
StoreStep ==
    \A w \in Workers :
        (wk[w].pc = "store" /\ wk'[w].pc = "ack") =>
            LET p == PathOf(wk[w].ev) IN
            /\ docs'[p] = wk[w].h
            /\ chunks'[p] = ChunkSet(wk[w].h)
            /\ embeddings'[p] = chunks'[p]

\* C7: an ADD/UPDATE whose parsed content hash equals the stored hash performs
\* zero writes to documents, chunks and embeddings and no embedding call; as
\* a stored document carries the hash it was parsed with, applying the same
\* event a second time leaves the store as the first application left it.
C7_UnchangedHashNoWrites ==
    /\ []SkipState
    /\ [][SkipStep /\ StoreStep]_vars

\* C7 witness: the only event was applied, the indexer crashed before the
\* ack, the event was redelivered and is now skipped with the store untouched
C7_Witness ==
    /\ Len(evq) = 1
    /\ idxRestarts = 1
    /\ applied = {1}
    /\ \E w \in Workers : wk[w].pc = "ack" /\ wk[w].same /\ ~wk[w].wrote
    /\ docs["a.txt"] = 2 /\ chunks["a.txt"] = ChunkSet(2)

(***************************************************************************)
(* WatcherProcess: EventProcessor.process and the flush timer              *)
(***************************************************************************)
Raw(kind, src, dest) == [kind |-> kind, src |-> src, dest |-> dest, time |-> now]

Tick ==
    /\ now < MaxTicks * TickMs
    /\ now' = now + TickMs
    /\ UNCHANGED <<roots, pending_deletes, debounce, emitted, rawLog,
                   queueVars, indexerVars, flushVars, rootVars, lifeVars, callVars, trackVars,
                   webVars>>

\* process(raw), kind = deleted: the correlator defers the event
RawDeleted ==
    \E p \in WPaths :
        /\ Len(rawLog) < MaxRaw
        /\ rawLog' = Append(rawLog, Raw("deleted", p, None))
        /\ pending_deletes' = OnDelete(pending_deletes, p, now)
        /\ UNCHANGED <<now, roots, debounce, emitted, queueVars, indexerVars, flushVars, rootVars, lifeVars, callVars,
                   trackVars, webVars>>

\* process(raw), kind = created: the correlator pairs it with a pending delete
\* or returns an ADD
RawCreated ==
    \E p \in WPaths :
        LET ev == OnCreateEvent(roots, pending_deletes, p, now) IN
        /\ Len(rawLog) < MaxRaw
        /\ rawLog' = Append(rawLog, Raw("created", p, None))
        /\ pending_deletes' = OnCreatePending(pending_deletes, p)
        /\ debounce' = AfterCorrelator(debounce, ev, now)
        /\ emitted' = EmitMove(emitted, ev)
        /\ UNCHANGED <<now, roots, queueVars, indexerVars, flushVars, rootVars, lifeVars, callVars, trackVars,
                   webVars>>

\* process(raw), kind = modified
RawModified ==
    \E p \in WPaths :
        /\ Len(rawLog) < MaxRaw
        /\ rawLog' = Append(rawLog, Raw("modified", p, None))
        /\ debounce' = DebounceAdd(debounce, p, "UPDATE", now)
        /\ UNCHANGED <<now, roots, pending_deletes, emitted, queueVars, indexerVars, flushVars, rootVars, lifeVars, callVars,
                   trackVars, webVars>>

\* process(raw), kind = moved: the OS reported both sides
RawMoved ==
    \E src \in WPaths : \E dest \in WPaths \ {src} :
        LET ev == HandleMove(roots, src, dest) IN
        /\ Len(rawLog) < MaxRaw
        /\ rawLog' = Append(rawLog, Raw("moved", src, dest))
        /\ debounce' = AfterCorrelator(debounce, ev, now)
        /\ emitted' = EmitMove(emitted, ev)
        /\ UNCHANGED <<now, roots, pending_deletes, queueVars, indexerVars, flushVars, rootVars, lifeVars, callVars,
                   trackVars, webVars>>

\* flush(): the expired deletes become DELETE events, then the debouncer hands
\* out what is due and the events are enqueued
Flush ==
    LET ks == Expired(pending_deletes, now)
        db == AddExpired(debounce, pending_deletes, ks, now)
    IN  /\ pending_deletes' = [k \in DOMAIN pending_deletes \ ks |-> pending_deletes[k]]
        /\ emitted' = emitted \o FlushEvents(db, roots, now)
        /\ debounce' = SelectSeq(db, LAMBDA e : ~Due(e, now))
        /\ UNCHANGED <<now, roots, rawLog, queueVars, indexerVars, flushVars, rootVars, lifeVars, callVars,
                   trackVars, webVars>>

WatcherNext == Tick \/ RawDeleted \/ RawCreated \/ RawModified \/ RawMoved \/ Flush

SpecWatcher == Init /\ [][WatcherNext]_vars

(***************************************************************************)
(* Claims about the EventProcessor                                         *)
(***************************************************************************)
IsRaw(i, kind, src, dest) ==
    /\ i <= Len(rawLog)
    /\ rawLog[i].kind = kind
    /\ rawLog[i].src = src
    /\ rawLog[i].dest = dest

\* nothing is pending in the correlator or in the debouncer
Quiet == DOMAIN pending_deletes = {} /\ debounce = <<>>

\* the only notification received is "moved src -> dest"
ReportedAsMoved(src, dest) ==
    Len(rawLog) = 1 /\ IsRaw(1, "moved", src, dest)

\* the only notifications received are "deleted src" and then, less than a
\* correlation window later, "created dest"
ReportedAsPair(src, dest) ==
    /\ Len(rawLog) = 2
    /\ IsRaw(1, "deleted", src, None)
    /\ IsRaw(2, "created", dest, None)
    /\ rawLog[2].time - rawLog[1].time < MOVE_CORRELATION_WINDOW_MS

\* the events emitted so far are a prefix of evs, and all of evs once quiet
EmitsExactly(evs) ==
    /\ Len(emitted) <= Len(evs)
    /\ emitted = SubSeq(evs, 1, Len(emitted))
    /\ Quiet => emitted = evs

RenameMove == FileEvent("MOVE", Doc2A, <<"r1">>, DocA, <<"r1">>)

C9_MoveOutIsOneDelete ==
    \A src \in WPaths :
        (/\ FindRoot(roots, src) # None
         /\ \/ Len(rawLog) = 1 /\ IsRaw(1, "deleted", src, None)
            \/ \E dest \in WPaths :
                   FindRoot(roots, dest) = None /\ ReportedAsMoved(src, dest))
        => EmitsExactly(<<FileEvent("DELETE", src, FindRoot(roots, src), None, None)>>)

C9_Witness ==
    /\ ReportedAsMoved(DocA, DocOut)
    /\ emitted = <<FileEvent("DELETE", DocA, <<"r1">>, None, None)>>

\* the event that root membership prescribes for a paired delete and create
PairedEvent(src, dest) ==
    LET src_in == \E r \in roots : IsPrefix(r, src)
        dest_in == \E r \in roots : IsPrefix(r, dest)
    IN  IF src_in /\ dest_in
        THEN FileEvent("MOVE", dest, FindRoot(roots, dest), src, FindRoot(roots, src))
        ELSE IF src_in
        THEN FileEvent("DELETE", src, FindRoot(roots, src), None, None)
        ELSE FileEvent("ADD", dest, FindRoot(roots, dest), None, None)

\* C10: a delete and a create that are paired (same filename, within the
\* window) give exactly one event, chosen by root membership: both sides
\* under a root, a MOVE with old_path and old_root; only the old side, a
\* DELETE of the old path; only the new side, an ADD of the new path.
C10_PairedByRootMembership ==
    \A src \in WPaths, dest \in WPaths :
        (/\ ReportedAsPair(src, dest)
         /\ Name(src) = Name(dest)
         /\ FindRoot(roots, src) # None \/ FindRoot(roots, dest) # None)
        => EmitsExactly(<<PairedEvent(src, dest)>>)

C10_Witness ==
    /\ ReportedAsPair(DocA, DocR2)
    /\ emitted = <<FileEvent("MOVE", DocR2, <<"r2">>, DocA, <<"r1">>)>>

\* the notifications received are n >= 2 notifications about path p, the first
\* of kind first and the others of kind rest, all less than a debounce window
\* after the first
Burst(p, first, rest) ==
    /\ Len(rawLog) >= 2
    /\ IsRaw(1, first, p, None)
    /\ \A i \in 2..Len(rawLog) :
           /\ IsRaw(i, rest, p, None)
           /\ rawLog[i].time - rawLog[1].time < DEBOUNCE_WINDOW_MS

UnderRoot(p) == \E r \in roots : IsPrefix(r, p)

\* C11: a create of p followed within the debounce window by a delete of p,
\* p under a watched root, yields no FileEvent at all, whenever the flush
\* timer runs.
C11_CreateDeleteNoEvent ==
    \A p \in WPaths :
        (UnderRoot(p) /\ Len(rawLog) = 2 /\ Burst(p, "created", "deleted"))
            => emitted = <<>>

\* C12: a delete of p followed within the debounce window by a create of the
\* same p, p under a watched root, yields exactly one FileEvent, an UPDATE of
\* p: no MOVE from p to p, no DELETE plus ADD.
C12_DeleteCreateIsUpdate ==
    \A p \in WPaths :
        (UnderRoot(p) /\ Len(rawLog) = 2 /\ Burst(p, "deleted", "created"))
            => EmitsExactly(<<FileEvent("UPDATE", p, FindRoot(roots, p), None, None)>>)

\* C13: modifies of p within one debounce window yield exactly one UPDATE, a
\* create of p followed by modifies within the window exactly one ADD, and
\* the event is emitted once, not before the window has elapsed.
C13_BurstIsOneEvent ==
    \A p \in WPaths :
        /\ (UnderRoot(p) /\ Burst(p, "modified", "modified")) =>
               /\ EmitsExactly(<<FileEvent("UPDATE", p, FindRoot(roots, p), None, None)>>)
               /\ emitted # <<>> => now - rawLog[1].time >= DEBOUNCE_WINDOW_MS
        /\ (UnderRoot(p) /\ Burst(p, "created", "modified")) =>
               /\ EmitsExactly(<<FileEvent("ADD", p, FindRoot(roots, p), None, None)>>)
               /\ emitted # <<>> => now - rawLog[1].time >= DEBOUNCE_WINDOW_MS

C13_Witness ==
    /\ Burst(DocA, "created", "modified")
    /\ emitted = <<FileEvent("ADD", DocA, <<"r1">>, None, None)>>

(***************************************************************************)
(* WatcherProcess: the FlushThread and the CommandConsumerThread           *)
(*                                                                         *)
(* flush() resolves each event's root with the RootManager (a short        *)
(* critical section) and then writes the events to the event queue; the    *)
(* command consumer runs on its own thread, so a REMOVE_ROOT can be        *)
(* applied between the two.                                                *)
(***************************************************************************)
\* flush(), first half: the expired deletes enter the debouncer, the due
\* entries leave it as FileEvents with their root resolved
FlushResolve ==
    LET ks == Expired(pending_deletes, now)
        db == AddExpired(debounce, pending_deletes, ks, now)
    IN  /\ outbox = <<>>
        /\ pending_deletes' = [k \in DOMAIN pending_deletes \ ks |-> pending_deletes[k]]
        /\ outbox' = FlushEvents(db, roots, now)
        /\ debounce' = SelectSeq(db, LAMBDA e : ~Due(e, now))
        /\ UNCHANGED <<now, roots, emitted, rawLog, queueVars, indexerVars, rootVars, lifeVars, callVars, trackVars,
                   webVars>>

\* flush(), second half: output_queue.enqueue for each event built
FlushEnqueue ==
    /\ outbox # <<>>
    /\ emitted' = emitted \o outbox
    /\ outbox' = <<>>
    /\ UNCHANGED <<now, roots, pending_deletes, debounce, rawLog, queueVars, indexerVars, rootVars, lifeVars, callVars,
                   trackVars, webVars>>

\* the command consumer applies REMOVE_ROOT: RootManager.remove_root
ApplyRemoveRoot ==
    \E r \in roots :
        /\ roots' = roots \ {r}
        /\ observers' = observers \ {r}
        /\ UNCHANGED <<now, pending_deletes, debounce, emitted, rawLog, outbox,
                       queueVars, indexerVars, rootVars,
                       state, watcher_status, cmdHeld, ncalls, callVars, trackVars, webVars>>

\* the command consumer applies ADD_ROOT: RootManager.add_root
ApplyAddRoot ==
    \E r \in InitialRoots \ roots :
        /\ roots' = roots \cup {r}
        /\ observers' = observers \cup {r}
        /\ UNCHANGED <<now, pending_deletes, debounce, emitted, rawLog, outbox,
                       queueVars, indexerVars, rootVars,
                       state, watcher_status, cmdHeld, ncalls, callVars, trackVars, webVars>>

RootsNext ==
    \/ Tick \/ RawDeleted \/ RawCreated \/ RawModified \/ RawMoved
    \/ FlushResolve \/ FlushEnqueue
    \/ ApplyRemoveRoot \/ ApplyAddRoot

SpecRoots == Init /\ [][RootsNext]_vars

\* a FileEvent whose path is under its root, a watched root (and the same
\* for old_path and old_root of a MOVE)
WellRooted(ev, rs) ==
    /\ ev.root \in rs
    /\ IsPrefix(ev.root, ev.path)
    /\ ev.type = "MOVE" => ev.old_root \in rs /\ IsPrefix(ev.old_root, ev.old_path)

\* C14: every FileEvent placed on the event queue has its path under its
\* root (a MOVE also its old_path under its old_root), and these roots are
\* watched when the event is enqueued, also when a REMOVE_ROOT is applied
\* while events of that root are pending.
C14_EnqueuedUnderWatchedRoot ==
    [][\A i \in (Len(emitted) + 1)..Len(emitted') : WellRooted(emitted'[i], roots')]_vars

(***************************************************************************)
(* IndexerProcess: add_root and remove_root, next to the worker pool and   *)
(* the watcher's command consumer                                          *)
(***************************************************************************)
Command(type, r) == [type |-> type, root |-> r]

\* mutant: the command is not written to the queue
QueueCommand_Lose(cmds, c) == cmds

\* WatcherProcess.add_root / remove_root: queue the command, nothing else
QueueCommand(cmds, c) == Append(cmds, c)
Returned(op, r, v) == [op |-> op, root |-> r, value |-> v]
RootStores == <<evq, disk, docs, chunks, embeddings, inhand, wk, retry, applied,
                nfail, idxRestarts, seen>>

\* add_root(r), 1. Check DB: the root has a row: return False
AddRootExists ==
    \E r \in InitialRoots :
        /\ rop.pc = "idle"
        /\ nops < MaxRootOps
        /\ RootExists(rootRows, r)
        /\ nops' = nops + 1
        /\ ret' = Returned("add_root", r, FALSE)
        /\ UNCHANGED <<rootRows, activity_log, commands, rop,
                       queueVars, indexerVars, watcherVars, flushVars, lifeVars, callVars,
                       trackVars, webVars>>

\* add_root(r), 1. Check DB: the root is new
AddRootCheck ==
    \E r \in InitialRoots :
        /\ rop.pc = "idle"
        /\ nops < MaxRootOps
        /\ ~RootExists(rootRows, r)
        /\ nops' = nops + 1
        /\ rop' = [op |-> "add_root", root |-> r, pc |-> "insert"]
        /\ UNCHANGED <<rootRows, activity_log, commands, ret,
                       queueVars, indexerVars, watcherVars, flushVars, lifeVars, callVars,
                       trackVars, webVars>>

\* add_root, 2. INSERT INTO roots
AddRootInsert ==
    /\ rop.op = "add_root" /\ rop.pc = "insert"
    /\ rootRows' = Append(rootRows, rop.root)
    /\ rop' = [rop EXCEPT !.pc = "log"]
    /\ UNCHANGED <<activity_log, commands, ret, nops,
                   queueVars, indexerVars, watcherVars, flushVars, lifeVars, callVars,
                   trackVars, webVars>>

\* add_root / remove_root, 3. Log activity
RootLog ==
    /\ rop.pc = "log"
    /\ activity_log' = Append(activity_log, [op |-> rop.op, root |-> rop.root])
    /\ rop' = [rop EXCEPT !.pc = "enqueue"]
    /\ UNCHANGED <<rootRows, commands, ret, nops,
                   queueVars, indexerVars, watcherVars, flushVars, lifeVars, callVars,
                   trackVars, webVars>>

\* add_root: watcher.add_root(r) queues the ADD_ROOT command; return True
AddRootEnqueue ==
    /\ rop.op = "add_root" /\ rop.pc = "enqueue"
    /\ commands' = QueueCommand(commands, Command("ADD_ROOT", rop.root))
    /\ ret' = Returned("add_root", rop.root, TRUE)
    /\ rop' = IdleOp
    /\ UNCHANGED <<rootRows, activity_log, nops,
                   queueVars, indexerVars, watcherVars, flushVars, lifeVars, callVars,
                   trackVars, webVars>>

\* remove_root(r), 1. Remove from VectorStore
RemoveRootStore ==
    \E r \in InitialRoots :
        /\ rop.pc = "idle"
        /\ nops < MaxRootOps
        /\ nops' = nops + 1
        /\ docs' = RemoveRootDocs(docs, r, 0)
        /\ chunks' = RemoveRootDocs(chunks, r, {})
        /\ embeddings' = RemoveRootDocs(embeddings, r, {})
        /\ rop' = [op |-> "remove_root", root |-> r, pc |-> "row"]
        /\ UNCHANGED <<evq, disk, inhand, wk, retry, applied, nfail, idxRestarts, seen,
                       rootRows, activity_log, commands, ret,
                       queueVars, watcherVars, flushVars, lifeVars, callVars, trackVars,
                       webVars>>

\* remove_root, 2. DELETE FROM roots
RemoveRootRow ==
    /\ rop.op = "remove_root" /\ rop.pc = "row"
    /\ rootRows' = DeleteRootRow(rootRows, rop.root)
    /\ rop' = [rop EXCEPT !.pc = "log"]
    /\ UNCHANGED <<activity_log, commands, ret, nops,
                   queueVars, indexerVars, watcherVars, flushVars, lifeVars, callVars,
                   trackVars, webVars>>

\* remove_root: watcher.remove_root(r) queues the REMOVE_ROOT command; return
RemoveRootEnqueue ==
    /\ rop.op = "remove_root" /\ rop.pc = "enqueue"
    /\ commands' = QueueCommand(commands, Command("REMOVE_ROOT", rop.root))
    /\ ret' = Returned("remove_root", rop.root, TRUE)
    /\ rop' = IdleOp
    /\ UNCHANGED <<rootRows, activity_log, nops,
                   queueVars, indexerVars, watcherVars, flushVars, lifeVars, callVars,
                   trackVars, webVars>>

\* the watcher's command consumer applies the next command to its RootManager
WatcherConsume ==
    /\ commands # <<>>
    /\ roots' = IF Head(commands).type = "ADD_ROOT"
                THEN roots \cup {Head(commands).root}
                ELSE roots \ {Head(commands).root}
    /\ observers' = IF Head(commands).type = "ADD_ROOT"
                    THEN observers \cup {Head(commands).root}
                    ELSE observers \ {Head(commands).root}
    /\ commands' = Tail(commands)
    /\ UNCHANGED <<now, pending_deletes, debounce, emitted, rawLog,
                   rootRows, activity_log, rop, ret, nops,
                   queueVars, indexerVars, flushVars,
                   state, watcher_status, cmdHeld, ncalls, callVars, trackVars, webVars>>

\* a file under a watched root is written and the watcher enqueues the event
WatchedWrite ==
    /\ FsWrite
    /\ IdxRootOf(evq'[Len(evq')].payload.path) \in roots

\* the root calls and the watcher's command consumer on their own
RootOpsNext ==
    \/ AddRootExists \/ AddRootCheck \/ AddRootInsert \/ RootLog \/ AddRootEnqueue
    \/ RemoveRootStore \/ RemoveRootRow \/ RemoveRootEnqueue
    \/ WatcherConsume

SpecRootOps == Init /\ [][RootOpsNext]_vars

\* the same next to the event consumer and the worker pool
RootLifeNext ==
    \/ RootOpsNext
    \/ WatchedWrite
    \/ Poll
    \/ \E w \in Workers :
        WParse(w) \/ WRemoveOld(w) \/ WEmbed(w) \/ WStore(w) \/ WAck(w)

SpecRootLife == Init /\ [][RootLifeNext]_vars

\* the roots table has a row for r
HasRow(r) == r \in Range(rootRows)

\* the rows of the store for the documents under root r
RootCountsZero(r) ==
    \A p \in IdxPaths :
        IdxRootOf(p) = r => docs[p] = 0 /\ chunks[p] = {} /\ embeddings[p] = {}

\* C15: remove_root works in a fixed order: when the root row is deleted the
\* store holds no document, chunk or embedding of the root; the REMOVE_ROOT
\* command is enqueued only after the row is deleted; and never does a chunk
\* exist for a document under a root whose row remove_root has deleted.
C15_RemoveRootOrder ==
    /\ [][rootRows' # rootRows /\ rop.op = "remove_root" => RootCountsZero(rop.root)]_vars
    /\ [][(Len(commands') > Len(commands) /\ rop.op = "remove_root")
              => ~HasRow(rop.root)]_vars
    /\ [](\A p \in IdxPaths : chunks[p] # {} => HasRow(IdxRootOf(p)))

\* a call of add_root that returns at once, without a step of its own left
AddRootReturnsAtOnce == nops' = nops + 1 /\ rop' = rop

\* C16: add_root of a root that has a row returns false and changes nothing
\* (no row inserted, nothing logged, no command enqueued); add_root goes on to
\* insert only for a root without a row, inserts the row before it enqueues
\* ADD_ROOT, and the roots table never holds a path twice.  (Calls of
\* add_root / remove_root do not overlap each other.)
C16_AddRootExisting ==
    /\ [][AddRootReturnsAtOnce =>
              /\ ret'.op = "add_root" /\ ret'.value = FALSE
              /\ HasRow(ret'.root)
              /\ UNCHANGED <<rootRows, activity_log, commands>>]_vars
    /\ [][(nops' = nops + 1 /\ rop'.op = "add_root") => ~HasRow(rop'.root)]_vars
    /\ [][(Len(commands') > Len(commands) /\ rop.op = "add_root")
              => HasRow(rop.root) /\ ret' = Returned("add_root", rop.root, TRUE)]_vars
    /\ [](\A i, j \in 1..Len(rootRows) : rootRows[i] = rootRows[j] => i = j)

C16_Witness ==
    /\ ret = Returned("add_root", <<"r1">>, TRUE)
    /\ rootRows = <<<<"r2">>, <<"r1">>>>
    /\ Len(activity_log) = 2

\* C17: an ADD/UPDATE event whose embedding failed is kept for a retry and
\* not dropped: an event is acked only once it has been applied (stored,
\* skipped as unchanged, or removed because the file is gone), and with fair
\* scheduling and a provider that fails only finitely often every event that
\* was handed out is eventually applied.
C17_EmbedFailureRequeued ==
    /\ [](\A e \in EvIds : evq[e].status = "done" => e \in applied)
    /\ \A e \in 1..MaxEvents :
           (e \in EvIds /\ evq[e].status = "processing") ~> (e \in applied)

C17_Witness ==
    \E p \in IdxPaths :
        /\ Len(evq) = 2 /\ PathOf(1) = p /\ PathOf(2) = p
        /\ 1 \in applied
        /\ 2 \in retry /\ evq[2].status = "processing"
        /\ disk[p] # 0 /\ docs[p] = 0
        /\ \A w \in Workers : wk[w].pc = "idle"

\* a step in which a parse fails: a failure is counted and no worker moves
ParseFailStep == nfail' = nfail + 1 /\ wk' = wk

\* C18: a failed parse of an ADD/UPDATE event writes and removes nothing in
\* the store, acks nothing and leaves the event scheduled for a retry (an
\* event taken from the batch joins the retry schedule, an event retried
\* stays in it); and in
\* every state each document has all the chunks of its content and each
\* chunk its embedding (no document without them, no chunk without document).
C18_ParseFailureLeavesStore ==
    /\ [][ParseFailStep =>
              /\ UNCHANGED <<docs, chunks, embeddings, evq>>
              /\ retry \subseteq retry' /\ (inhand \ inhand') \subseteq retry'
              /\ \E e \in retry' : TypeOf(e) \in {"ADD", "UPDATE"}]_vars
    /\ [](\A p \in IdxPaths :
              /\ chunks[p] = IF docs[p] = 0 THEN {} ELSE ChunkSet(docs[p])
              /\ embeddings[p] = chunks[p])

C18_Witness ==
    \E p \in IdxPaths :
        /\ Len(evq) = 2 /\ PathOf(1) = p /\ PathOf(2) = p
        /\ 2 \in retry /\ evq[2].status = "processing"
        /\ docs[p] # 0 /\ disk[p] # 0 /\ docs[p] # disk[p]
        /\ chunks[p] = ChunkSet(docs[p])
        /\ \A w \in Workers : wk[w].pc = "idle"

(***************************************************************************)
(* IndexerProcess: the event handlers on a store that already holds a      *)
(* document, without failures and restarts                                 *)
(***************************************************************************)
\* a file is renamed to a path where no file is, and the watcher enqueues
\* the MOVE event
FsMove ==
    \E old \in IdxPaths : \E new \in IdxPaths \ {old} :
        /\ Len(evq) < MaxEvents
        /\ disk[old] # 0
        /\ disk[new] = 0
        /\ disk' = [disk EXCEPT ![new] = disk[old], ![old] = 0]
        /\ evq' = Enqueue(evq, [type |-> "MOVE", path |-> new, old_path |-> old])
        /\ UNCHANGED <<docs, chunks, embeddings, inhand, wk, retry, applied, nfail,
                       idxRestarts, seen, queueVars, watcherVars, flushVars, rootVars, lifeVars, callVars,
                       trackVars, webVars>>

\* process_event, MOVE (_handle_move): the document's path is updated in
\* place; without a document under old_path no row is updated
WMove(w) ==
    \E e \in Takeable(w) :
        LET new == PathOf(e)
            old == OldPathOf(e)
            has == docs[old] # 0
        IN  /\ wk[w].pc = "idle"
            /\ TypeOf(e) = "MOVE"
            /\ inhand' = inhand \ {e}
            /\ retry' = retry \ {e}
            /\ docs' = IF has THEN MoveRows(docs, old, new, 0) ELSE docs
            /\ chunks' = IF has THEN MoveRows(chunks, old, new, {}) ELSE chunks
            /\ embeddings' = IF has THEN MoveRows(embeddings, old, new, {}) ELSE embeddings
            /\ applied' = applied \cup {e}
            /\ wk' = [wk EXCEPT ![w] =
                        [IdleWorker EXCEPT !.ev = e, !.pc = "ack", !.wrote = has]]
            /\ UNCHANGED <<evq, disk, nfail, idxRestarts, seen,
                           queueVars, watcherVars, flushVars, rootVars, lifeVars, callVars,
                           trackVars, webVars>>

ApplyNext ==
    \/ FsWrite
    \/ FsDelete
    \/ FsMove
    \/ Poll
    \/ \E w \in Workers :
        \/ WParse(w) \/ WDelete(w) \/ WMove(w)
        \/ WRemoveOld(w) \/ WEmbed(w) \/ WStore(w) \/ WAck(w)

SpecApply == InitIndexed /\ [][ApplyNext]_vars

\* worker w applies a DELETE event in this step
DeleteStep(w) ==
    /\ wk[w].pc = "idle"
    /\ wk'[w].pc = "ack"
    /\ TypeOf(wk'[w].ev) = "DELETE"

\* C19: applying a DELETE event for p leaves no document, chunk or embedding
\* of p and a search finds nothing from p; every other document keeps its
\* rows; and if p was not indexed the DELETE changes nothing in the store.
C19_DeleteRemovesDocument ==
    [][\A w \in Workers :
          DeleteStep(w) =>
              LET p == PathOf(wk'[w].ev)
              IN  /\ docs'[p] = 0 /\ chunks'[p] = {} /\ embeddings'[p] = {}
                  /\ chunks'[p] \cap embeddings'[p] = {}
                  /\ \A q \in IdxPaths \ {p} :
                         /\ docs'[q] = docs[q]
                         /\ chunks'[q] = chunks[q]
                         /\ embeddings'[q] = embeddings[q]
                  /\ docs[p] = 0 => UNCHANGED <<docs, chunks, embeddings>>]_vars

C19_Witness ==
    \E w \in Workers :
        /\ wk[w].pc = "ack" /\ wk[w].wrote
        /\ TypeOf(wk[w].ev) = "DELETE" /\ PathOf(wk[w].ev) = "b.md"
        /\ docs["b.md"] = 0 /\ chunks["b.md"] = {} /\ embeddings["b.md"] = {}
        /\ docs["a.txt"] = 2 /\ chunks["a.txt"] = ChunkSet(2)

\* worker w applies a MOVE event in this step
MoveStep(w) ==
    /\ wk[w].pc = "idle"
    /\ wk'[w].pc = "ack"
    /\ TypeOf(wk'[w].ev) = "MOVE"

\* C20: applying a MOVE event (old_path to path) to an indexed document
\* changes only its path: afterwards the document is under path and not under
\* old_path, with the content hash, chunks and embeddings it had, every other
\* document keeps its rows, and no embedding call is made.
C20_MoveKeepsChunks ==
    [][\A w \in Workers :
          (MoveStep(w) /\ docs[OldPathOf(wk'[w].ev)] # 0) =>
              LET new == PathOf(wk'[w].ev)
                  old == OldPathOf(wk'[w].ev)
              IN  /\ docs'[new] = docs[old] /\ docs'[old] = 0
                  /\ chunks'[new] = chunks[old] /\ chunks'[old] = {}
                  /\ embeddings'[new] = embeddings[old] /\ embeddings'[old] = {}
                  /\ \A q \in IdxPaths \ {old, new} :
                         /\ docs'[q] = docs[q]
                         /\ chunks'[q] = chunks[q]
                         /\ embeddings'[q] = embeddings[q]
                  /\ ~wk'[w].called]_vars

C20_Witness ==
    \E w \in Workers :
        /\ wk[w].pc = "ack" /\ wk[w].wrote /\ ~wk[w].called
        /\ TypeOf(wk[w].ev) = "MOVE"
        /\ PathOf(wk[w].ev) = "a.txt" /\ OldPathOf(wk[w].ev) = "b.md"
        /\ docs["a.txt"] = 1 /\ docs["b.md"] = 0
        /\ chunks["a.txt"] = ChunkSet(1) /\ embeddings["a.txt"] = ChunkSet(1)

\* the call that returns in this step handed the watcher a command
CallsWatcher(type) ==
    /\ ret' # ret
    /\ ret'.value
    /\ ret'.op = (IF type = "ADD_ROOT" THEN "add_root" ELSE "remove_root")

\* C22: WatcherProcess.add_root / remove_root append their command to the
\* command queue and return in the same step, leaving the roots table, the
\* RootManager set and the running observers as they are; the set and the
\* observers change only when the command consumer takes a command off the
\* queue, and the watcher never changes the roots table.
C22_RootCallsOnlyEnqueue ==
    [][/\ \A type \in {"ADD_ROOT", "REMOVE_ROOT"} :
            CallsWatcher(type) =>
                /\ commands' = Append(commands, Command(type, ret'.root))
                /\ rop' = IdleOp
                /\ UNCHANGED <<rootRows, roots, observers>>
       /\ (roots' # roots \/ observers' # observers) =>
                /\ commands # <<>> /\ commands' = Tail(commands)
                /\ UNCHANGED rootRows]_vars

\* remove_root(r1) has returned, its command waits in the queue, and the
\* watcher still watches r1 with a running observer
C22_Witness ==
    /\ ret = Returned("remove_root", <<"r1">>, TRUE)
    /\ commands = <<Command("REMOVE_ROOT", <<"r1">>)>>
    /\ <<"r1">> \in roots /\ <<"r1">> \in observers
    /\ rop = IdleOp

(***************************************************************************)
(* WatcherProcess: lifecycle. start() loads the persisted roots, replays   *)
(* requeue_unacked, starts one observer per root and runs the loops;       *)
(* stop() drains what is in flight, stops the observers and lets the       *)
(* loops exit.                                                             *)
(***************************************************************************)
MaxCalls == 3      \* start() / stop() calls and SHUTDOWN commands
MaxSink == 1       \* raw notifications the sink loop takes
MaxLifeTicks == 2  \* clock ticks while the lifecycle is observed

States == {"stopped", "starting", "running", "stopping"}

\* mutant: start() does not look at the state
CanStart_Always(s) == TRUE

\* start() acts only on a stopped watcher
CanStart(s) == s = "stopped"

\* mutant: stop() does not look at the state
CanStop_Always(s) == TRUE

\* stop() (and SHUTDOWN) acts only on a running watcher
CanStop(s) == s = "running"

\* a command in the processing status is redelivered first
RequeueCommands(inflight, cmds) == inflight \o cmds

\* mutant: stop() hands out only what the debounce window lets out
DrainAll_Due(db, pd, rs, t) == FlushEvents(db, rs, t)

\* stop() drains the EventProcessor: every deferred delete and every
\* debounce entry leaves as a FileEvent, whatever its age
DrainAll(db, pd, rs, t) ==
    FlushEvents(AddExpired(db, pd, DOMAIN pd, t), rs,
                t + MOVE_CORRELATION_WINDOW_MS + DEBOUNCE_WINDOW_MS)

\* start() is called
StartCall ==
    /\ ncalls < MaxCalls
    /\ ncalls' = ncalls + 1
    /\ state' = IF CanStart(state) THEN "starting" ELSE state
    /\ UNCHANGED <<watcher_status, observers, cmdHeld,
                   queueVars, indexerVars, watcherVars, flushVars, rootVars, callVars,
                   trackVars, webVars>>

\* start(): load the persisted roots (read-only), requeue_unacked, start
\* FSWatcherPool for each loaded root, set the running flag, run the loops
StartLoad ==
    /\ state = "starting"
    /\ roots' = Range(rootRows)
    /\ observers' = Range(rootRows)
    /\ commands' = RequeueCommands(cmdHeld, commands)
    /\ cmdHeld' = <<>>
    /\ watcher_status' = TRUE
    /\ state' = "running"
    /\ UNCHANGED <<now, pending_deletes, debounce, emitted, rawLog, ncalls,
                   rootRows, activity_log, rop, ret, nops,
                   queueVars, indexerVars, flushVars, callVars, trackVars, webVars>>

\* stop() is called
StopCall ==
    /\ ncalls < MaxCalls
    /\ ncalls' = ncalls + 1
    /\ state' = IF CanStop(state) THEN "stopping" ELSE state
    /\ UNCHANGED <<watcher_status, observers, cmdHeld,
                   queueVars, indexerVars, watcherVars, flushVars, rootVars, callVars,
                   trackVars, webVars>>

\* stop(), once the flush in progress has written its events: drain the
\* EventProcessor, stop all observers, clear the running flag
StopDone ==
    /\ state = "stopping"
    /\ outbox = <<>>
    /\ emitted' = emitted \o DrainAll(debounce, pending_deletes, roots, now)
    /\ debounce' = <<>>
    /\ pending_deletes' = <<>>
    /\ observers' = {}
    /\ watcher_status' = FALSE
    /\ state' = "stopped"
    /\ UNCHANGED <<now, roots, rawLog, cmdHeld, ncalls,
                   queueVars, indexerVars, flushVars, rootVars, callVars, trackVars, webVars>>

\* a caller queues a SHUTDOWN command
SendShutdown ==
    /\ ncalls < MaxCalls
    /\ ncalls' = ncalls + 1
    /\ commands' = Append(commands, Command("SHUTDOWN", None))
    /\ UNCHANGED <<rootRows, activity_log, rop, ret, nops,
                   state, watcher_status, observers, cmdHeld,
                   queueVars, indexerVars, watcherVars, flushVars, callVars, trackVars,
                   webVars>>

\* mutant: the internal handler saves the root it adds
SaveRoot_Insert(rows, c) == IF c.type = "ADD_ROOT" THEN Append(rows, c.root) ELSE rows

\* _add_root_internal / _remove_root_internal: no database write for roots
SaveRoot(rows, c) == rows

\* mutant: REMOVE_ROOT is not applied
ApplyCommand_AddOnly(rs, c) == IF c.type = "ADD_ROOT" THEN rs \cup {c.root} ELSE rs

\* ADD_ROOT: RootManager.add_root + start_watching; REMOVE_ROOT:
\* RootManager.remove_root + stop_watching (the same change to both sets)
ApplyCommand(rs, c) ==
    IF c.type = "ADD_ROOT" THEN rs \cup {c.root}
    ELSE IF c.type = "REMOVE_ROOT" THEN rs \ {c.root}
    ELSE rs

\* command consumer loop: dequeue the next command (it becomes processing)
CmdDequeue ==
    /\ state = "running"
    /\ cmdHeld = <<>>
    /\ commands # <<>>
    /\ cmdHeld' = <<Head(commands)>>
    /\ commands' = Tail(commands)
    /\ UNCHANGED <<rootRows, activity_log, rop, ret, nops,
                   state, watcher_status, observers, ncalls,
                   queueVars, indexerVars, watcherVars, flushVars, callVars, trackVars,
                   webVars>>

\* command consumer loop: apply the command in hand (RootManager +
\* FSWatcherPool, or the shutdown) and ack it
CmdApply ==
    /\ state \in {"running", "stopping"}
    /\ cmdHeld # <<>>
    /\ LET c == Head(cmdHeld) IN
        /\ roots' = ApplyCommand(roots, c)
        /\ observers' = ApplyCommand(observers, c)
        /\ state' = IF c.type = "SHUTDOWN" /\ CanStop(state) THEN "stopping"
                    ELSE state
        /\ rootRows' = SaveRoot(rootRows, c)
    /\ cmdHeld' = <<>>
    /\ UNCHANGED <<now, pending_deletes, debounce, emitted, rawLog,
                   watcher_status, ncalls, activity_log, commands, rop, ret, nops,
                   queueVars, indexerVars, flushVars, callVars, trackVars, webVars>>

\* raw-notification sink loop
Sink ==
    /\ state = "running"
    /\ Len(rawLog) < MaxSink
    /\ RawDeleted \/ RawCreated \/ RawModified

\* flush timer loop: an iteration starts
FlushStart == state = "running" /\ FlushResolve

\* flush timer loop: the iteration in progress writes its events
FlushFinish == FlushEnqueue

\* the clock of the lifecycle runs
LifeTick == now < MaxLifeTicks * TickMs /\ Tick

LifeNext ==
    \/ LifeTick
    \/ StartCall \/ StartLoad \/ StopCall \/ StopDone
    \/ SendShutdown \/ CmdDequeue \/ CmdApply
    \/ Sink \/ FlushStart \/ FlushFinish

SpecLife == Init /\ [][LifeNext]_vars

\* the lifecycle's transitions
LifeCycle ==
    {<<"stopped", "starting">>, <<"starting", "running">>,
     <<"running", "stopping">>, <<"stopping", "stopped">>}

\* a loop starts an iteration: the sink takes a notification, the consumer
\* dequeues a command, the flush timer takes entries out of the processor
LoopIteration ==
    \/ rawLog' # rawLog
    \/ Len(cmdHeld') > Len(cmdHeld)
    \/ state' = state /\ outbox = <<>>
         /\ (debounce' # debounce \/ pending_deletes' # pending_deletes)

ObservedWrite ==
    /\ state = "running"
    /\ FsWrite
    /\ IdxRootOf(evq'[Len(evq')].payload.path) \in observers

MaxOwnerOps == 2      \* add_root / remove_root calls
MaxOwnerCalls == 2    \* start() / stop() calls
MaxOwnerEvents == 1   \* FileEvents enqueued

\* a root call begins
OwnerRootCall ==
    /\ nops < MaxOwnerOps
    /\ AddRootCheck \/ RemoveRootStore

\* start() or stop() is called
OwnerLifeCall ==
    /\ ncalls < MaxOwnerCalls
    /\ StartCall \/ StopCall

OwnerWrite == Len(evq) < MaxOwnerEvents /\ ObservedWrite

OwnerNext ==
    \/ OwnerRootCall
    \/ AddRootInsert \/ RootLog \/ AddRootEnqueue
    \/ RemoveRootRow \/ RemoveRootEnqueue
    \/ OwnerLifeCall \/ StartLoad \/ StopDone
    \/ CmdDequeue \/ CmdApply
    \/ OwnerWrite
    \/ Poll
    \/ WParse(1) \/ WEmbed(1) \/ WStore(1) \/ WAck(1)

SpecOwner == Init /\ [][OwnerNext]_vars

\* the tables of IndexerProcess (roots, documents, chunks, embeddings,
\* activity_log) and of WatcherProcess (watcher_status, commands, events)
IndexerTables == <<rootRows, docs, chunks, embeddings, activity_log>>
WatcherTables == <<watcher_status, commands, cmdHeld, evq>>

\* a step of WatcherProcess's own threads: lifecycle, command consumer,
\* observers, event enqueue
WatcherCode ==
    \/ state' # state \/ roots' # roots \/ observers' # observers
    \/ cmdHeld' # cmdHeld
    \/ Len(evq') > Len(evq)

\* a step of IndexerProcess's code: a root call, the process loop, a worker
IndexerCode == rop' # rop \/ nops' # nops \/ inhand' # inhand \/ wk' # wk

\* the only changes the watcher's public interface makes to its queues on
\* behalf of a caller: add_root / remove_root append a command;
\* get_pending_events and ack move the status of event rows forward
ThroughInterface ==
    /\ commands' # commands =>
         \E type \in {"ADD_ROOT", "REMOVE_ROOT"} :
            commands' = Append(commands, Command(type, rop.root))
    /\ cmdHeld' = cmdHeld
    /\ Len(evq') = Len(evq)
    /\ \A i \in 1..Len(evq) :
         /\ evq'[i].payload = evq[i].payload
         /\ <<evq[i].status, evq'[i].status>> \in
               {<<"pending", "pending">>, <<"processing", "processing">>,
                <<"done", "done">>, <<"pending", "processing">>,
                <<"processing", "done">>}

MaxK == 3            \* largest top_k asked for
ScoreMax == 1        \* the score scale: ScoreMax stands for 1.0

\* the chunks a store may hold: two documents of two chunks (chunk_index 0, 1)
ChunkKeys == IdxPaths \X {0, 1}
NoRow == -1

\* the rows of a store given as chunk -> score (NoRow: the chunk is not stored)
RowsOf(f) == {[path |-> c[1], idx |-> c[2], score |-> f[c]] : c \in {x \in ChunkKeys : f[x] # NoRow}}

\* filter_paths ([on |-> FALSE]: None, no filter) and min_score
NoFilter == [on |-> FALSE, paths |-> {}]
Passes(r, filter, min_score) ==
    /\ filter.on => r.path \in filter.paths
    /\ r.score >= min_score

\* mutant: lowest score first
Before_Ascending(x, y) == x.score < y.score \/ (x.score = y.score /\ x.idx <= y.idx)

\* ranking: score descending, ties by chunk_index ascending
Before(x, y) == x.score > y.score \/ (x.score = y.score /\ x.idx <= y.idx)

\* the rows in ranking order
RECURSIVE Ranked(_)
Ranked(S) ==
    IF S = {} THEN <<>>
    ELSE LET x == CHOOSE r \in S : \A y \in S : Before(r, y)
         IN  <<x>> \o Ranked(S \ {x})

\* mutant: no limit
TakeTop_All(ranked, k) == ranked

\* LIMIT top_k
TakeTop(ranked, k) == SubSeq(ranked, 1, Min(k, Len(ranked)))

\* VectorStore.search(query_embedding, top_k, filter_paths, min_score)
VectorSearch(rows, k, filter, min_score) ==
    TakeTop(Ranked({r \in rows : Passes(r, filter, min_score)}), k)

\* a search on some store
SearchCall ==
    \E f \in [ChunkKeys -> NoRow..ScoreMax], k \in 0..MaxK,
       filter \in {NoFilter} \cup {[on |-> TRUE, paths |-> {p}] : p \in IdxPaths},
       m \in 0..ScoreMax :
        /\ callArgs = NoCall
        /\ callArgs' = [op |-> "search", rows |-> RowsOf(f), top_k |-> k,
                        filter_paths |-> filter, min_score |-> m]
        /\ callResult' = [op |-> "search",
                          hits |-> VectorSearch(RowsOf(f), k, filter, m)]
        /\ UNCHANGED <<queueVars, indexerVars, watcherVars, flushVars, rootVars,
                       lifeVars, trackVars, webVars>>

SpecTopK == Init /\ [][SearchCall]_vars

\* the stored chunks that pass the filters of the last search
Passing == {r \in callArgs.rows :
                Passes(r, callArgs.filter_paths, callArgs.min_score)}

StopOnce == ncalls = 0 /\ StopCall

\* a file is written and its event enqueued, while the watcher runs (one
\* event is followed through the workers)
StopWrite == evq = <<>> /\ ObservedWrite

\* the process loop and a worker take new work only while running
StopPoll == state = "running" /\ Poll
StopTake == state = "running" /\ WParse(1)

StopNext ==
    \/ LifeTick \/ Sink \/ FlushStart \/ FlushFinish
    \/ StopOnce \/ StopDone
    \/ StopWrite \/ StopPoll \/ StopTake
    \/ WEmbed(1) \/ WStore(1) \/ WAck(1)

SpecStop == Init /\ [][StopNext]_vars

\* the paths under a watched root with something pending in the processor
PendingPaths ==
    {p \in WPaths :
        /\ FindRoot(roots, p) # None
        /\ \/ \E i \in 1..Len(debounce) : debounce[i].path = p
           \/ \E k \in DOMAIN pending_deletes : pending_deletes[k].path = p}

\* a pending ADD of p followed by its deferred delete: the two cancel
Cancelled(p) ==
    /\ \E i \in 1..Len(debounce) : debounce[i].path = p /\ debounce[i].type = "ADD"
    /\ \E k \in DOMAIN pending_deletes : pending_deletes[k].path = p

\* C25: the step that takes the watcher to stopped enqueues a FileEvent for
\* every path with a pending debounce entry or deferred delete (but a
\* create and delete that cancel), and a stopped watcher holds nothing
\* back; an event is acked only when it is applied, so at any point where
\* the workers stop an event taken is applied and acked or still unacked;
\* and the store always holds each document with all of its chunks and
\* embeddings or none of them.
C25_StopDropsNothing ==
    /\ [][state = "stopping" /\ state' = "stopped" =>
            \A p \in PendingPaths :
                \/ Cancelled(p)
                \/ \E i \in (Len(emitted) + 1)..Len(emitted') :
                      emitted'[i].path = p]_vars
    /\ [](state = "stopped" =>
            debounce = <<>> /\ DOMAIN pending_deletes = {} /\ outbox = <<>>)
    /\ [](\A e \in 1..Len(evq) : evq[e].status = "done" => e \in applied)
    /\ [](\A p \in IdxPaths :
            /\ chunks[p] = IF docs[p] = 0 THEN {} ELSE ChunkSet(docs[p])
            /\ embeddings[p] = chunks[p])

\* the watcher stopped with a notification pending: its event was enqueued
\* by the drain; a worker was stopped with an event in hand, unacked
C25_Witness ==
    /\ state = "stopped"
    /\ rawLog # <<>> /\ now = 0
    /\ emitted # <<>>
    /\ \E e \in 1..Len(evq) : evq[e].status = "processing"
    /\ wk[1].pc \in {"embed", "store"}

(***************************************************************************)
(* The watcher's roots as a mirror of the roots table: the root calls of   *)
(* IndexerProcess, the watcher's command consumer, and restarts of the     *)
(* watcher that reload the table and requeue the unacked commands          *)
(***************************************************************************)
\* the watcher is stopped, and later started again
MirrorStop == state = "running" /\ StopCall
MirrorStart == state = "stopped" /\ StartCall

MirrorNext ==
    \/ AddRootExists \/ AddRootCheck \/ AddRootInsert \/ RootLog \/ AddRootEnqueue
    \/ RemoveRootStore \/ RemoveRootRow \/ RemoveRootEnqueue
    \/ CmdDequeue \/ CmdApply
    \/ MirrorStop \/ StopDone \/ MirrorStart \/ StartLoad

SpecMirror == Init /\ [][MirrorNext]_vars

\* no root call is under way and every command issued has been consumed
AllConsumed == rop.pc = "idle" /\ commands = <<>> /\ cmdHeld = <<>>

MaxBackRaw == 2     \* raw notifications

\* mutant: the queue takes an event only when the consumer has caught up
HasRoom_WhenCaughtUp(q) == \A i \in 1..Len(q) : q[i].status = "done"

\* PersistentQueue.enqueue has no capacity and waits for no consumer
HasRoom(q) == TRUE

\* the rows enqueue writes for a list of events
RECURSIVE EnqueueAll(_, _)
EnqueueAll(q, evs) ==
    IF evs = <<>> THEN q ELSE EnqueueAll(Enqueue(q, Head(evs)), Tail(evs))

\* a file under a watched root is modified
BackSink ==
    /\ Len(rawLog) < MaxBackRaw
    /\ RawModified
    /\ FindRoot(roots, rawLog'[Len(rawLog')].src) # None

\* flush(), second half, on the queue table: output_queue.enqueue for each
\* event built
BackEnqueue ==
    /\ outbox # <<>>
    /\ HasRoom(evq)
    /\ evq' = EnqueueAll(evq, outbox)
    /\ emitted' = emitted \o outbox
    /\ outbox' = <<>>
    /\ UNCHANGED <<now, roots, pending_deletes, debounce, rawLog,
                   disk, docs, chunks, embeddings, inhand, wk, retry, applied, nfail,
                   idxRestarts, seen, queueVars, rootVars, lifeVars, callVars, trackVars,
                   webVars>>

BackNext == LifeTick \/ BackSink \/ FlushStart \/ BackEnqueue \/ Poll

SpecBack == Init /\ [][BackNext]_vars /\ WF_vars(BackEnqueue)

MaxTexts == 3           \* texts in one embed() call
MaxBatchConfig == 2     \* EmbeddingConfig.batch_size
MaxRetryConfig == 2     \* EmbeddingConfig.max_retries

Outcomes == {"ok", "transient", "auth"}

\* mutant: the whole remainder goes out as one request
BatchOf_Rest(remaining, batch_size) == remaining

\* the size of the next request: up to batch_size texts
BatchOf(remaining, batch_size) == Min(remaining, batch_size)

\* mutant: one more retry than configured
GiveUp_Late(tries, max_retries) == tries > max_retries + 1

\* tries requests for the batch have failed, the first and the retries
GiveUp(tries, max_retries) == tries > max_retries

\* embed(texts) is called; an empty list needs no request
EmbedCall ==
    \E n \in 0..MaxTexts, b \in 1..MaxBatchConfig, r \in 0..MaxRetryConfig :
        /\ callArgs = NoCall
        /\ callArgs' = [op |-> "embed", n |-> n, batch_size |-> b,
                        max_retries |-> r, done |-> 0, tries |-> 0,
                        sent |-> 0, requests |-> 0, last |-> "none"]
        /\ callResult' = [op |-> "embed",
                          status |-> IF n = 0 THEN "ok" ELSE "running"]
        /\ UNCHANGED <<queueVars, indexerVars, watcherVars, flushVars, rootVars,
                       lifeVars, trackVars, webVars>>

\* one request to the provider and its answer
EmbedRequest ==
    \E outcome \in Outcomes :
        LET c == callArgs
            size == BatchOf(c.n - c.done, c.batch_size)
            tries == IF outcome = "ok" THEN 0 ELSE c.tries + 1
            done == IF outcome = "ok" THEN c.done + size ELSE c.done
        IN  /\ callArgs.op = "embed"
            /\ callResult.status = "running"
            /\ callArgs' = [c EXCEPT !.done = done, !.tries = tries,
                                     !.sent = size, !.requests = @ + 1,
                                     !.last = outcome]
            /\ callResult' =
                 [callResult EXCEPT !.status =
                     CASE outcome = "ok" ->
                            IF done = c.n THEN "ok" ELSE "running"
                       [] outcome = "auth" -> "failed"
                       [] OTHER ->
                            IF GiveUp(tries, c.max_retries)
                            THEN "failed" ELSE "running"]
            /\ UNCHANGED <<queueVars, indexerVars, watcherVars, flushVars,
                           rootVars, lifeVars, trackVars, webVars>>

EmbedNext == EmbedCall \/ EmbedRequest

SpecEmbed == Init /\ [][EmbedNext]_vars

\* C28: a request never holds more than batch_size texts; a request that
\* follows a failed one follows a transient failure and is at most the
\* max_retries-th retry of its batch; when the last retry allowed fails too
\* the call reports failure; and after a 4xx/auth failure the call has
\* failed and no request follows.
C28_EmbedRetries ==
    /\ [](callArgs.op = "embed" =>
            /\ callArgs.sent <= callArgs.batch_size
            /\ callArgs.tries <= callArgs.max_retries + 1
            /\ (callArgs.last = "transient"
                  /\ callArgs.tries = callArgs.max_retries + 1)
                 => callResult.status = "failed"
            /\ callArgs.last = "auth" => callResult.status = "failed"
            /\ callResult.status = "failed" =>
                 callArgs.last \in {"transient", "auth"})
    /\ [][callArgs.op = "embed" /\ callArgs'.requests # callArgs.requests =>
            /\ callArgs.last # "auth"
            /\ callArgs.tries > 0 =>
                 /\ callArgs.last = "transient"
                 /\ callArgs.tries <= callArgs.max_retries]_vars

\* a second batch was retried twice and the call gave up
C28_Witness ==
    /\ callArgs.op = "embed"
    /\ callResult.status = "failed"
    /\ callArgs.last = "transient"
    /\ callArgs.max_retries = 2
    /\ callArgs.tries = 3
    /\ callArgs.done = 2
    /\ callArgs.sent = 1

(***************************************************************************)
(* RootManager: two threads call it; the body of a call runs under the     *)
(* manager's mutex                                                         *)
(***************************************************************************)
MaxRmCalls == 3     \* calls made by the two threads together

RmThreads == {1, 2}
RmOps == {"add_root", "remove_root", "find_root_for_path", "is_under_any_root"}
InnerRoot == <<"r1", "a">>
RmRoots == InitialRoots \cup {InnerRoot}
RmPaths == WPaths \cup RmRoots
RmIdle == [pc |-> "idle", op |-> "none", path |-> None, present |-> FALSE]

\* RootManager.is_under_any_root
IsUnderAnyRoot(rs, p) == \E r \in rs : IsPrefix(r, p)

\* mutant: the body runs without the mutex
CanEnter_Unguarded(lock) == TRUE

\* the mutex is free: no thread (0) holds it
CanEnter(lock) == lock = 0

\* a thread calls a method of the manager
RmInvoke(t) ==
    \E op \in RmOps, p \in RmPaths :
        /\ callArgs = NoCall \/ callArgs.op = "root_manager"
        /\ LET c == IF callArgs = NoCall
                    THEN [op |-> "root_manager", lock |-> 0, n |-> 0,
                          th |-> [u \in RmThreads |-> RmIdle]]
                    ELSE callArgs
           IN  /\ c.n < MaxRmCalls
               /\ c.th[t].pc = "idle"
               /\ op \in {"add_root", "remove_root"} => p \in RmRoots
               /\ callArgs' = [c EXCEPT !.n = @ + 1,
                                        !.th[t] = [pc |-> "called", op |-> op,
                                                   path |-> p, present |-> FALSE]]
        /\ UNCHANGED <<callResult, queueVars, indexerVars, watcherVars, flushVars,
                       rootVars, lifeVars, trackVars, webVars>>

\* the thread takes the mutex and looks the path up in the set
RmEnter(t) ==
    /\ callArgs # NoCall /\ callArgs.op = "root_manager"
    /\ callArgs.th[t].pc = "called"
    /\ CanEnter(callArgs.lock)
    /\ callArgs' = [callArgs EXCEPT !.lock = t, !.th[t].pc = "in",
                                    !.th[t].present = callArgs.th[t].path \in roots]
    /\ UNCHANGED <<callResult, queueVars, indexerVars, watcherVars, flushVars,
                   rootVars, lifeVars, trackVars, webVars>>

\* the thread changes the set or reads it, releases the mutex and returns
RmReturn(t) ==
    /\ callArgs # NoCall /\ callArgs.op = "root_manager"
    /\ callArgs.th[t].pc = "in"
    /\ LET me == callArgs.th[t]
           res == CASE me.op = "add_root" -> ~me.present
                    [] me.op = "remove_root" -> me.present
                    [] me.op = "find_root_for_path" -> FindRoot(roots, me.path)
                    [] OTHER -> IsUnderAnyRoot(roots, me.path)
       IN  /\ roots' = CASE me.op = "add_root" /\ ~me.present ->
                               roots \cup {me.path}
                         [] me.op = "remove_root" /\ me.present ->
                               roots \ {me.path}
                         [] OTHER -> roots
           /\ callResult' = [op |-> "root_manager", thread |-> t,
                             method |-> me.op, path |-> me.path, res |-> res,
                             n |-> callArgs.n]
    /\ callArgs' = [callArgs EXCEPT
                       !.lock = IF @ = t THEN 0 ELSE @,
                       !.th[t] = RmIdle]
    /\ UNCHANGED <<now, pending_deletes, debounce, rawLog, outbox, emitted,
                   queueVars, indexerVars, rootVars, lifeVars, trackVars, webVars>>

RmNext == \E t \in RmThreads : RmInvoke(t) \/ RmEnter(t) \/ RmReturn(t)

SpecRm == Init /\ [][RmNext]_vars

\* the thread whose call returns in this step
Returns(t) ==
    /\ callArgs # NoCall /\ callArgs.op = "root_manager"
    /\ callArgs.th[t].pc = "in"
    /\ callArgs'.th[t].pc = "idle"

\* C29: each call takes effect at one step, its return, as the method run
\* alone on the set of that moment would: add_root returns true and adds the
\* path when it is absent, returns false and changes nothing when it is
\* present; remove_root returns whether the path was present and removes it;
\* find_root_for_path returns a watched prefix of the path than which no
\* watched prefix is longer, or none when there is no watched prefix, which
\* is exactly when is_under_any_root returns false; and the two readers
\* change nothing.  The calls of the two threads are thus ordered by their
\* return steps.
C29_RootManagerContract ==
    /\ [][\A t \in RmThreads : Returns(t) =>
            LET p == callArgs.th[t].path
                m == callArgs.th[t].op
                res == callResult'.res
                watched == {r \in roots : IsPrefix(r, p)}
            IN  /\ callResult'.thread = t
                /\ m = "add_root" =>
                     /\ res = (p \notin roots)
                     /\ roots' = roots \cup {p}
                /\ m = "remove_root" =>
                     /\ res = (p \in roots)
                     /\ roots' = roots \ {p}
                /\ m = "find_root_for_path" =>
                     /\ roots' = roots
                     /\ IF watched = {} THEN res = None
                        ELSE /\ res \in watched
                             /\ \A o \in watched : Len(o) <= Len(res)
                /\ m = "is_under_any_root" =>
                     /\ roots' = roots
                     /\ res = (watched # {})]_vars
    /\ [][roots' # roots => \E t \in RmThreads : Returns(t)]_vars
    /\ [](\A p \in RmPaths :
            (FindRoot(roots, p) = None) <=> ~IsUnderAnyRoot(roots, p))

\* with a root and a root inside it both watched, a lookup of a file under
\* the inner one returned the inner one, after both threads had made calls
C29_Witness ==
    /\ callResult # NoCall /\ callResult.op = "root_manager"
    /\ callResult.method = "find_root_for_path"
    /\ callResult.path = DocA
    /\ callResult.res = InnerRoot
    /\ <<"r1">> \in roots
    /\ callResult.thread = 2
    /\ callArgs.th[1].pc = "called"
    /\ callArgs.n = 3

(***************************************************************************)
(* IndexerProcess.resync and integrity_check: files change while no        *)
(* watcher sees them, then the index is compared with the disk             *)
(***************************************************************************)
IdxPathSeq == <<"a.txt", "b.md">>

\* the roots with a row in the roots table are the enabled ones
EnabledRoots(rows) == Range(rows)

\* mutant: only the files missing from the index are looked for
ResyncType_AddOnly(dk, dc, rows, p) ==
    IF IdxRootOf(p) \in EnabledRoots(rows) /\ dk[p] # 0 /\ dc[p] = 0
    THEN "ADD" ELSE "none"

\* the discrepancy of one path: on disk and not indexed, indexed and not on
\* disk, or none
ResyncType(dk, dc, rows, p) ==
    IF IdxRootOf(p) \notin EnabledRoots(rows) THEN "none"
    ELSE IF dk[p] # 0 /\ dc[p] = 0 THEN "ADD"
    ELSE IF dk[p] = 0 /\ dc[p] # 0 THEN "DELETE"
    ELSE "none"

\* the events resync synthesizes, in the order of the walk
ResyncEvents(dk, dc, rows) ==
    SelectSeq([i \in 1..Len(IdxPathSeq) |->
                  [type |-> ResyncType(dk, dc, rows, IdxPathSeq[i]),
                   path |-> IdxPathSeq[i]]],
              LAMBDA e : e.type # "none")

\* no event is waiting or being processed
Settled ==
    /\ \A i \in 1..Len(evq) : evq[i].status = "done"
    /\ \A w \in Workers : wk[w].pc = "idle"

\* a file is written or deleted while the watcher is stopped: no event
SilentChange ==
    \E p \in IdxPaths, h \in {0} \cup Contents :
        /\ callArgs = NoCall
        /\ disk[p] # h
        /\ disk' = [disk EXCEPT ![p] = h]
        /\ UNCHANGED <<evq, docs, chunks, embeddings, inhand, wk, retry, applied,
                       nfail, idxRestarts, seen, queueVars, watcherVars, flushVars,
                       rootVars, lifeVars, callVars, trackVars, webVars>>

\* one change the watcher reports, before the resync
SeenChange == callArgs = NoCall /\ evq = <<>> /\ (FsWrite \/ FsDelete)

\* a root is removed, before the resync
ResyncRemoveRoot ==
    /\ callArgs = NoCall
    /\ \/ nops = 0 /\ Settled /\ RemoveRootStore
       \/ RemoveRootRow
       \/ RootLog
       \/ RemoveRootEnqueue

\* resync(): walk the enabled roots, diff, synthesize the events
Resync ==
    /\ callArgs = NoCall
    /\ Settled
    /\ rop.pc = "idle"
    /\ evq' = EnqueueAll(evq, ResyncEvents(disk, docs, rootRows))
    /\ callArgs' = [op |-> "resync", disk |-> disk, docs |-> docs,
                    enabled |-> EnabledRoots(rootRows),
                    events |-> ResyncEvents(disk, docs, rootRows)]
    /\ UNCHANGED <<callResult, disk, docs, chunks, embeddings, inhand, wk, retry,
                   applied, nfail, idxRestarts, seen, queueVars, watcherVars,
                   flushVars, rootVars, lifeVars, trackVars, webVars>>

\* integrity_check(): every document row has a live file, every document's
\* chunks are the stored ones; the mismatches are reported
IntegrityCheck ==
    /\ callResult = NoCall
    /\ callResult' = [op |-> "integrity_check",
                      missing_files |-> {p \in IdxPaths : docs[p] # 0 /\ disk[p] = 0},
                      chunk_mismatch |-> {p \in IdxPaths :
                                            /\ docs[p] # 0
                                            /\ chunks[p] # ChunkSet(docs[p])}]
    /\ UNCHANGED <<callArgs, queueVars, indexerVars, watcherVars, flushVars,
                   rootVars, lifeVars, trackVars, webVars>>

\* the process loop and a worker
ResyncWork ==
    \/ Poll
    \/ WParse(1) \/ WDelete(1) \/ WRemoveOld(1) \/ WEmbed(1) \/ WStore(1)
    \/ WAck(1)

ResyncNext ==
    \/ SilentChange
    \/ SeenChange
    \/ ResyncRemoveRoot
    \/ Resync
    \/ IntegrityCheck
    \/ ResyncWork

SpecResync == InitIndexed /\ [][ResyncNext]_vars /\ WF_vars(ResyncWork)

\* index and disk hold the same files under the enabled roots
Agree(rs) ==
    \A p \in IdxPaths : IdxRootOf(p) \in rs => ((docs[p] # 0) <=> (disk[p] # 0))

CountEmitted(Test(_)) == Cardinality({i \in 1..Len(emitted) : Test(emitted[i])})

\* the notifications received are about different paths
DistinctPaths ==
    \A i, j \in 1..Len(rawLog) : i # j => rawLog[i].src # rawLog[j].src

\* C31: once nothing is pending, every delete notification for a file under
\* a watched root has given exactly one event: a MOVE away from the file or
\* a DELETE of it (the notifications being about different paths, so that
\* the debouncer merges nothing).
C31_DeleteAccountedOnce ==
    (Quiet /\ DistinctPaths) =>
        \A i \in 1..Len(rawLog) :
            (rawLog[i].kind = "deleted" /\ UnderRoot(rawLog[i].src)) =>
                LET p == rawLog[i].src
                    MovedAway(e) == e.type = "MOVE" /\ e.old_path = p
                    Deleted(e) == e.type = "DELETE" /\ e.path = p
                IN  CountEmitted(MovedAway) + CountEmitted(Deleted) = 1

(***************************************************************************)
(* EventProcessor: directory recursion. The processor keeps the listing of *)
(* the files under the roots; the delete of a directory, or of a root      *)
(* folder, is expanded into the deletes of the files listed under it       *)
(***************************************************************************)
MaxDirRaw == 2     \* raw notifications

DirA == <<"r1", "a">>
Dirs == {DirA}
WPathSeq == <<DocA, Doc2A, DocR2, DocOut>>

\* mutant: every listed file is reported, wherever it lies
ExpandDir_All(tr, d) == tr

\* the listed files under directory d
ExpandDir(tr, d) == {p \in tr : IsPrefix(d, p) /\ p # d}

\* one DELETE FileEvent per file of ps, in the order of the listing
DirEvents(rs, ps) ==
    LET sel == SelectSeq(WPathSeq, LAMBDA p : p \in ps)
    IN  [i \in 1..Len(sel) |->
            FileEvent("DELETE", sel[i], FindRoot(rs, sel[i]), None, None)]

\* the observers of root r
ObserversOf(pl, r) == {o \in pl : o.root = r}

\* FSWatcherPool.start_watching(root): a root that has its observer keeps it
StartWatching(pl, r) ==
    IF ObserversOf(pl, r) # {} THEN pl
    ELSE pl \cup {[root |-> r, id |-> 0, alive |-> TRUE]}

\* mutant: stop_all
StopWatching_All(pl, r) == {}

\* FSWatcherPool.stop_watching(root)
StopWatching(pl, r) == {o \in pl : o.root # r}

\* process(raw), kind = created, of a file: listed when under a root
DirFileCreated ==
    \E p \in WPaths :
        LET ev == OnCreateEvent(roots, pending_deletes, p, now) IN
        /\ Len(rawLog) < MaxDirRaw
        /\ FindRoot(roots, p) \notin dropping
        /\ rawLog' = Append(rawLog, Raw("created", p, None))
        /\ tracked' = IF FindRoot(roots, p) # None THEN tracked \cup {p} ELSE tracked
        /\ pending_deletes' = OnCreatePending(pending_deletes, p)
        /\ debounce' = AfterCorrelator(debounce, ev, now)
        /\ emitted' = EmitMove(emitted, ev)
        /\ UNCHANGED <<now, roots, dropping, pool, queueVars, indexerVars, flushVars,
                       rootVars, lifeVars, callVars, webVars>>

\* process(raw), kind = deleted, of a file: taken off the listing, deferred
DirFileDeleted ==
    \E p \in tracked :
        /\ Len(rawLog) < MaxDirRaw
        /\ rawLog' = Append(rawLog, Raw("deleted", p, None))
        /\ tracked' = tracked \ {p}
        /\ pending_deletes' = OnDelete(pending_deletes, p, now)
        /\ UNCHANGED <<now, roots, debounce, emitted, dropping, pool, queueVars,
                       indexerVars, flushVars, rootVars, lifeVars, callVars, webVars>>

\* process(raw), kind = deleted, is_directory: one DELETE per listed file
\* under the directory; a deleted root folder is then to be dropped
DirDeleted ==
    \E d \in Dirs \cup (roots \ dropping) :
        LET ps == ExpandDir(tracked, d) IN
        /\ Len(rawLog) < MaxDirRaw
        /\ FindRoot(roots, d) # None
        /\ rawLog' = Append(rawLog, Raw("deleted_dir", d, None))
        /\ emitted' = emitted \o DirEvents(roots, ps)
        /\ tracked' = tracked \ ps
        /\ dropping' = IF d \in roots THEN dropping \cup {d} ELSE dropping
        /\ UNCHANGED <<now, roots, pending_deletes, debounce, pool, queueVars,
                       indexerVars, flushVars, rootVars, lifeVars, callVars, webVars>>

\* the deleted root is removed from the RootManager and its observer stopped
RootDrop ==
    \E r \in dropping :
        /\ roots' = roots \ {r}
        /\ observers' = observers \ {r}
        /\ pool' = StopWatching(pool, r)
        /\ dropping' = dropping \ {r}
        /\ UNCHANGED <<now, pending_deletes, debounce, emitted, rawLog, tracked,
                       state, watcher_status, cmdHeld, ncalls, queueVars,
                       indexerVars, flushVars, rootVars, callVars, webVars>>

DirNext ==
    \/ Tick
    \/ DirFileCreated
    \/ DirFileDeleted
    \/ DirDeleted
    \/ RootDrop
    \/ Flush

SpecDir == Init /\ [][DirNext]_vars

\* the step handles the notification that directory d was deleted
DirStep(d) == rawLog' = Append(rawLog, Raw("deleted_dir", d, None))

\* C32: the delete of a directory or root folder d adds to the queue, in
\* that step, exactly one DELETE for each file listed under d and nothing
\* else; a root leaves the RootManager only after its folder's delete was
\* handled that way, with its observer running until then and stopped in the
\* same step, and no file under it is listed any more.
C32_DirectoryDeleteExpanded ==
    /\ [][\A d \in Dirs \cup roots : DirStep(d) =>
            LET n == Len(emitted)
                new == SubSeq(emitted', n + 1, Len(emitted'))
            IN  /\ SubSeq(emitted', 1, n) = emitted
                /\ \A i \in 1..Len(new) : new[i].type = "DELETE"
                /\ \A p \in WPaths :
                     Cardinality({i \in 1..Len(new) : new[i].path = p})
                        = IF p \in tracked /\ IsPrefix(d, p) THEN 1 ELSE 0
                /\ d \in roots => d \in roots' /\ d \in dropping']_vars
    /\ [][roots' # roots =>
            \E r \in dropping :
                /\ roots' = roots \ {r}
                /\ r \in observers /\ r \notin observers'
                /\ \A o \in pool' : o.root # r
                /\ \A p \in tracked : ~IsPrefix(r, p)]_vars
    /\ [](\A r \in dropping :
            r \in roots /\ r \in observers /\ \A p \in tracked : ~IsPrefix(r, p))

\* the folder of root r1 was deleted with two files listed under it: both
\* DELETEs are in the queue and the root has been dropped since
C32_Witness ==
    /\ Len(rawLog) = 1
    /\ rawLog[1].kind = "deleted_dir" /\ rawLog[1].src = <<"r1">>
    /\ emitted = <<FileEvent("DELETE", DocA, <<"r1">>, None, None),
                   FileEvent("DELETE", Doc2A, <<"r1">>, None, None)>>
    /\ roots = {<<"r2">>}
    /\ observers = {<<"r2">>}
    /\ DocR2 \in tracked

(***************************************************************************)
(* FSWatcherPool: one observer per root; the command consumer starts and   *)
(* stops them, an observer may crash and is then started again             *)
(***************************************************************************)
MaxPoolRestarts == 2     \* restarts of one root's observer

\* ADD_ROOT is applied: RootManager.add_root, then start_watching
PoolAddRoot ==
    \E r \in RmRoots :
        /\ roots' = roots \cup {r}
        /\ pool' = StartWatching(pool, r)
        /\ observers' = {o.root : o \in pool'}
        /\ roots' # roots \/ pool' # pool
        /\ UNCHANGED <<now, pending_deletes, debounce, emitted, rawLog, tracked,
                       dropping, state, watcher_status, cmdHeld, ncalls, queueVars,
                       indexerVars, flushVars, rootVars, callVars, webVars>>

\* REMOVE_ROOT is applied: RootManager.remove_root, then stop_watching
PoolRemoveRoot ==
    \E r \in roots :
        /\ roots' = roots \ {r}
        /\ pool' = StopWatching(pool, r)
        /\ observers' = {o.root : o \in pool'}
        /\ UNCHANGED <<now, pending_deletes, debounce, emitted, rawLog, tracked,
                       dropping, state, watcher_status, cmdHeld, ncalls, queueVars,
                       indexerVars, flushVars, rootVars, callVars, webVars>>

\* the observer of one root crashes
ObserverCrash ==
    \E o \in pool :
        /\ o.alive
        /\ o.id < MaxPoolRestarts
        /\ pool' = (pool \ {o}) \cup {[o EXCEPT !.alive = FALSE]}
        /\ UNCHANGED <<tracked, dropping, queueVars, indexerVars, watcherVars,
                       flushVars, rootVars, lifeVars, callVars, webVars>>

\* the crashed observer is replaced by a new one for the same root
ObserverRestart ==
    \E o \in pool :
        /\ ~o.alive
        /\ pool' = (pool \ {o}) \cup {[root |-> o.root, id |-> o.id + 1, alive |-> TRUE]}
        /\ UNCHANGED <<tracked, dropping, queueVars, indexerVars, watcherVars,
                       flushVars, rootVars, lifeVars, callVars, webVars>>

PoolNext == PoolAddRoot \/ PoolRemoveRoot \/ ObserverCrash \/ ObserverRestart

SpecPool == Init /\ [][PoolNext]_vars

\* C33: every watched root has exactly one observer and no other root has
\* any; a step changes the observers of at most one root, and the observers
\* of every other root stay as they are, running if they were running.
C33_OneObserverPerRoot ==
    /\ [](\A r \in RmRoots :
            Cardinality(ObserversOf(pool, r)) = IF r \in roots THEN 1 ELSE 0)
    /\ [][\A r \in RmRoots :
            ObserversOf(pool', r) # ObserversOf(pool, r) =>
                \A q \in RmRoots \ {r} : ObserversOf(pool', q) = ObserversOf(pool, q)]_vars
    /\ [][\A r \in roots :
            roots' = roots \ {r} =>
                /\ ObserversOf(pool', r) = {}
                /\ \A q \in RmRoots \ {r} : ObserversOf(pool', q) = ObserversOf(pool, q)]_vars

\* r1 was removed and r1/a added, while the observer of r2, once crashed and
\* restarted, runs on
C33_Witness ==
    /\ roots = {InnerRoot, <<"r2">>}
    /\ pool = {[root |-> InnerRoot, id |-> 0, alive |-> TRUE],
               [root |-> <<"r2">>, id |-> 1, alive |-> TRUE]}

(***************************************************************************)
(* VectorStore: the rows of documents, chunks and embeddings under every   *)
(* handler of the indexer, with failures, restarts and a root removal      *)
(***************************************************************************)
\* remove_root, once, next to the workers, in a run without a restart
StoreRemoveRoot ==
    \/ nops = 0 /\ idxRestarts = 0 /\ RemoveRootStore
    \/ RemoveRootRow
    \/ RootLog
    \/ RemoveRootEnqueue

\* a restart of the indexer, in a run without a root call
StoreRestart == nops = 0 /\ IdxRestart

StoreNext ==
    \/ ApplyNext
    \/ StoreRestart
    \/ StoreRemoveRoot

SpecStore == InitIndexed /\ [][StoreNext]_vars

MaxWebCalls == 3     \* asynchronous store calls

Agents == {"a1", "a2"}
Responses == {"ok", "not_ok", "error"}

Ids(seq) == {seq[i].id : i \in 1..Len(seq)}

\* state.sessions.filter(s => s.agentName !== agentName)
OtherSessions(seq, agentName) == SelectSeq(seq, LAMBDA s : s.agentName # agentName)

\* GET .../apps/{agentName}/users/{user}/sessions
BackendList(bk, agentName) == SelectSeq(bk, LAMBDA s : s.agentName = agentName)

\* merged.sort((a, b) => b.updatedAt - a.updatedAt): stable, newest first
RECURSIVE SortByUpdated(_)
SortByUpdated(seq) ==
    IF seq = <<>> THEN <<>>
    ELSE LET front == SortByUpdated(SubSeq(seq, 1, Len(seq) - 1))
             x == seq[Len(seq)]
             k == Cardinality({i \in 1..Len(front) : front[i].updatedAt >= x.updatedAt})
         IN  SubSeq(front, 1, k) \o <<x>> \o SubSeq(front, k + 1, Len(front))

\* parseEventsToMessages: a message per user or model event with text; the
\* chunks of the search results seen since the last assistant message are
\* that assistant message's sources
RECURSIVE ParseFrom(_, _, _)
ParseFrom(events, k, pendingSources) ==
    IF k > Len(events) THEN <<>>
    ELSE LET e == events[k]
             pending == pendingSources \cup e.results
         IN  IF e.text # "" /\ e.role \in {"user", "model"}
             THEN <<[role |-> IF e.role = "user" THEN "user" ELSE "assistant",
                     content |-> e.text,
                     sources |-> IF e.role = "model" THEN pending ELSE {}]>>
                  \o ParseFrom(events, k + 1, IF e.role = "model" THEN {} ELSE pending)
             ELSE ParseFrom(events, k + 1, pending)

ParseEventsToMessages(events) == ParseFrom(events, 1, {})

\* fetchSessions: the session built from a backend session and its events
NewSession(b, agentName, t) ==
    [id |-> b.id, agentName |-> agentName,
     messages |-> ParseEventsToMessages(b.events),
     updatedAt |-> IF b.last_update_time # 0 THEN b.last_update_time * 1000 ELSE t]

\* mutant: the fetched list replaces the whole array
MergeSessions_ReplaceAll(cur, agentName, new) == SortByUpdated(new)

\* fetchSessions: "Merge: replace sessions for this agent, keep others"
MergeSessions(cur, agentName, new) ==
    SortByUpdated(OtherSessions(cur, agentName) \o new)

StoreCall(op, agentName, id) ==
    [op |-> op, agentName |-> agentName, id |-> id, pc |-> "request",
     list |-> <<>>, result |-> "none"]

\* a store action is called: the call is up to its first await
CallStart(c) ==
    /\ Len(calls) < MaxWebCalls
    /\ calls' = Append(calls, c)
    /\ wnow' = wnow + 500
    /\ UNCHANGED <<sessions, activeSessionId, backend, auth, page, queueVars,
                   indexerVars, watcherVars, flushVars, rootVars, lifeVars, callVars,
                   trackVars>>

FetchSessions == \E a \in Agents : CallStart(StoreCall("fetchSessions", a, 0))

CreateSession == \E a \in Agents : CallStart(StoreCall("createSession", a, 0))

\* deleteSession(id) from the sidebar, for a listed session
DeleteSession ==
    \E i \in 1..Len(sessions) :
        CallStart(StoreCall("deleteSession", sessions[i].agentName, sessions[i].id))

\* fetchSessions: the list request is answered
FetchList(i) ==
    \E resp \in Responses :
        /\ calls[i].op = "fetchSessions" /\ calls[i].pc = "request"
        /\ calls' = [calls EXCEPT
                        ![i].pc = IF resp = "ok" THEN "set" ELSE "done",
                        ![i].result = resp,
                        ![i].list = IF resp = "ok"
                                    THEN BackendList(backend, calls[i].agentName)
                                    ELSE <<>>]
        /\ UNCHANGED <<sessions, activeSessionId, backend, wnow, auth, page,
                       queueVars, indexerVars, watcherVars, flushVars, rootVars,
                       lifeVars, callVars, trackVars>>

\* fetchSessions: the sessions' events have been fetched; set(...)
FetchSet(i) ==
    LET c == calls[i]
        new == [k \in 1..Len(c.list) |-> NewSession(c.list[k], c.agentName, wnow)]
    IN  /\ c.op = "fetchSessions" /\ c.pc = "set"
        /\ sessions' = MergeSessions(sessions, c.agentName, new)
        /\ calls' = [calls EXCEPT ![i].pc = "done"]
        /\ UNCHANGED <<activeSessionId, backend, wnow, auth, page,
                       queueVars, indexerVars, watcherVars, flushVars, rootVars,
                       lifeVars, callVars, trackVars>>

\* createSession: the POST is answered; not OK or no answer: the call throws
CreatePost(i) ==
    \E resp \in Responses :
        /\ calls[i].op = "createSession" /\ calls[i].pc = "request"
        /\ backend' = IF resp = "ok"
                      THEN Append(backend, [id |-> i, agentName |-> calls[i].agentName,
                                            last_update_time |-> wnow \div 1000,
                                            events |-> <<>>])
                      ELSE backend
        /\ calls' = [calls EXCEPT
                        ![i].pc = IF resp = "ok" THEN "set" ELSE "done",
                        ![i].result = resp,
                        ![i].id = IF resp = "ok" THEN i ELSE 0]
        /\ UNCHANGED <<sessions, activeSessionId, wnow, auth, page,
                       queueVars, indexerVars, watcherVars, flushVars, rootVars,
                       lifeVars, callVars, trackVars>>

\* createSession: set(state => ({sessions: [session, ...], activeSessionId: id}))
CreateSet(i) ==
    LET c == calls[i]
        session == [id |-> c.id, agentName |-> c.agentName, messages |-> <<>>,
                    updatedAt |-> wnow]
    IN  /\ c.op = "createSession" /\ c.pc = "set"
        /\ sessions' = <<session>> \o sessions
        /\ activeSessionId' = c.id
        /\ calls' = [calls EXCEPT ![i].pc = "done"]
        /\ UNCHANGED <<backend, wnow, auth, page,
                       queueVars, indexerVars, watcherVars, flushVars, rootVars,
                       lifeVars, callVars, trackVars>>

\* deleteSession: the DELETE is answered, or fails and the failure is logged
DeleteRequest(i) ==
    \E resp \in Responses :
        /\ calls[i].op = "deleteSession" /\ calls[i].pc = "request"
        /\ backend' = IF resp = "ok"
                      THEN SelectSeq(backend, LAMBDA b : b.id # calls[i].id)
                      ELSE backend
        /\ calls' = [calls EXCEPT ![i].pc = "set", ![i].result = resp]
        /\ UNCHANGED <<sessions, activeSessionId, wnow, auth, page,
                       queueVars, indexerVars, watcherVars, flushVars, rootVars,
                       lifeVars, callVars, trackVars>>

\* deleteSession: set(state => ({sessions: filter, activeSessionId: ...}))
DeleteSet(i) ==
    LET c == calls[i]
    IN  /\ c.op = "deleteSession" /\ c.pc = "set"
        /\ sessions' = SelectSeq(sessions, LAMBDA s : s.id # c.id)
        /\ activeSessionId' = IF activeSessionId = c.id THEN 0 ELSE activeSessionId
        /\ calls' = [calls EXCEPT ![i].pc = "done"]
        /\ UNCHANGED <<backend, wnow, auth, page,
                       queueVars, indexerVars, watcherVars, flushVars, rootVars,
                       lifeVars, callVars, trackVars>>

\* setActiveSession(id): a listed session is selected in the sidebar
SelectSession ==
    \E i \in 1..Len(sessions) :
        /\ activeSessionId # sessions[i].id
        /\ activeSessionId' = sessions[i].id
        /\ UNCHANGED <<sessions, backend, calls, wnow, auth, page,
                       queueVars, indexerVars, watcherVars, flushVars, rootVars,
                       lifeVars, callVars, trackVars>>

\* clearSessions: set({ sessions: [], activeSessionId: null })
ClearSessions ==
    /\ Len(calls) < MaxWebCalls
    /\ sessions # <<>>
    /\ sessions' = <<>>
    /\ activeSessionId' = 0
    /\ calls' = Append(calls, [StoreCall("clearSessions", "none", 0) EXCEPT !.pc = "done"])
    /\ UNCHANGED <<backend, wnow, auth, page,
                   queueVars, indexerVars, watcherVars, flushVars, rootVars,
                   lifeVars, callVars, trackVars>>

SessionsNext ==
    \/ FetchSessions
    \/ CreateSession
    \/ DeleteSession
    \/ SelectSession
    \/ ClearSessions
    \/ \E i \in 1..Len(calls) :
        \/ FetchList(i) \/ FetchSet(i)
        \/ CreatePost(i) \/ CreateSet(i)
        \/ DeleteRequest(i) \/ DeleteSet(i)

SpecSessions == Init /\ [][SessionsNext]_vars

\* call i of kind op goes from position pc to done in this step
Completes(i, op, pc) ==
    /\ i <= Len(calls)
    /\ calls[i].op = op /\ calls[i].pc = pc
    /\ calls'[i].pc = "done"

\* C35: when a fetchSessions(agentName) writes the store, the sessions of
\* agentName become those of the list the backend returned, the sessions of
\* every other agent are the same sessions as before, and activeSessionId
\* is unchanged; when the list request fails or is not OK, sessions and
\* activeSessionId are unchanged.
C35_FetchReplacesOneAgent ==
    [][\A i \in 1..Len(calls) :
          /\ Completes(i, "fetchSessions", "set") =>
                LET a == calls[i].agentName
                    mine == BackendList(sessions', a)
                IN  /\ Ids(mine) = Ids(calls[i].list)
                    /\ Len(mine) = Len(calls[i].list)
                    /\ Range(OtherSessions(sessions', a)) = Range(OtherSessions(sessions, a))
                    /\ Len(OtherSessions(sessions', a)) = Len(OtherSessions(sessions, a))
                    /\ activeSessionId' = activeSessionId
          /\ Completes(i, "fetchSessions", "request") =>
                /\ calls'[i].result \in {"not_ok", "error"}
                /\ sessions' = sessions
                /\ activeSessionId' = activeSessionId]_vars

\* a fetch for a1 has replaced a1's sessions by the one the backend listed,
\* with a session of a2 in the store
C35_Witness ==
    /\ Len(calls) = 3
    /\ calls[3].op = "fetchSessions" /\ calls[3].agentName = "a1"
    /\ calls[3].pc = "done" /\ calls[3].result = "ok"
    /\ Len(calls[3].list) = 1
    /\ Ids(sessions) = {1, 2}
    /\ \E i \in 1..2 : sessions[i].agentName = "a2"


\* call i is a createSession that has put its session into the store
Created(i) ==
    /\ calls[i].op = "createSession" /\ calls[i].pc = "done" /\ calls[i].result = "ok"

\* this step is a call of clearSessions
ClearStep ==
    /\ Len(calls') = Len(calls) + 1
    /\ calls'[Len(calls')].op = "clearSessions"

\* C36: a session that createSession put into sessions leaves sessions only
\* in a step of clearSessions or when deleteSession has been called for it
\* (so activeSessionId set by createSession keeps referring to a session of
\* the store), also when a fetchSessions for the same agent that started
\* before the createSession completes after it.
C36_CreatedSessionStays ==
    [][\A i \in 1..Len(calls) :
          (/\ Created(i)
           /\ calls[i].id \in Ids(sessions)
           /\ calls[i].id \notin Ids(sessions'))
          => \/ ClearStep
             \/ \E j \in 1..Len(calls) :
                    calls[j].op = "deleteSession" /\ calls[j].id = calls[i].id]_vars

\* the state the stale fetch leaves: session 1 of a1 exists, fetchSessions("a1")
\* listed it before the POST of a second createSession("a1") was served,
\* createSession made session 3 the active one, and the fetch, completing
\* last, took session 3 out of sessions
C36_StaleFetchState ==
    /\ Len(calls) = 3
    /\ Created(1) /\ calls[1].agentName = "a1"
    /\ calls[2].op = "fetchSessions" /\ calls[2].agentName = "a1" /\ calls[2].pc = "done"
    /\ Created(3) /\ calls[3].agentName = "a1"
    /\ activeSessionId = 3
    /\ Ids(sessions) = {1}

\* C37: when deleteSession(id) completes, whatever the answer to the DELETE,
\* no session with that id is in sessions and activeSessionId is null if it
\* was id and unchanged otherwise; and a fetchSessions that was called before
\* the deleteSession and completes after it does not put a session with that
\* id into sessions.
C37_DeletedSessionGone ==
    [][\A i \in 1..Len(calls) :
          /\ Completes(i, "deleteSession", "set") =>
                /\ calls[i].id \notin Ids(sessions')
                /\ activeSessionId' = IF activeSessionId = calls[i].id
                                      THEN 0 ELSE activeSessionId
          /\ \A j \in 1..Len(calls) :
                (/\ j < i
                 /\ calls[i].op = "deleteSession" /\ calls[i].pc = "done"
                 /\ Completes(j, "fetchSessions", "set"))
                => calls[i].id \notin Ids(sessions')]_vars

\* the state the in-flight fetch leaves: session 1 was created, a
\* fetchSessions listed it, deleteSession(1) completed with the DELETE
\* served, and the fetch, completing last, put session 1 back
C37_DeletedSessionBack ==
    /\ Len(calls) = 3
    /\ Created(1)
    /\ calls[2].op = "fetchSessions" /\ calls[2].pc = "done"
    /\ calls[3].op = "deleteSession" /\ calls[3].id = 1 /\ calls[3].pc = "done"
    /\ calls[3].result = "ok"
    /\ backend = <<>>
    /\ 1 \in Ids(sessions)


(***************************************************************************)
(* Web client: authStore and App start-up                                  *)
(***************************************************************************)
Users == {"u1", "u2"}

\* App: the spinner, the LoginPage or the Layout
Screen ==
    IF auth.isLoading \/ auth.isRemote = "null" THEN "spinner"
    ELSE IF auth.isRemote = "true" /\ auth.user = "null" THEN "login"
    ELSE "layout"

AuthFrame ==
    UNCHANGED <<sessions, activeSessionId, backend, calls, wnow, page, queueVars,
                indexerVars, watcherVars, flushVars, rootVars, lifeVars, callVars,
                trackVars>>

\* App's first effect: init() calls checkMode(), which requests /settings/mode
AppMount ==
    /\ auth.pc = "mount"
    /\ auth' = [auth EXCEPT !.pc = "checkMode"]
    /\ AuthFrame

\* checkMode: isRemote after the answer to /settings/mode
IsRemoteAfter(cur, resp) ==
    CASE resp = "remote" -> "true"
      [] resp = "local" -> "false"
      [] resp = "not_ok" -> cur
      [] resp = "error" -> "false"

\* checkMode: /settings/mode is answered (OK with a mode, not OK, or no answer)
CheckMode ==
    \E resp \in {"remote", "local", "not_ok", "error"} :
        /\ auth.pc = "checkMode"
        /\ auth' = [auth EXCEPT !.isRemote = IsRemoteAfter(auth.isRemote, resp),
                                !.pc = "fetchMe"]
        /\ AuthFrame

\* fetchMe: set({ isLoading: true, error: null }), then the request
FetchMe ==
    /\ auth.pc = "fetchMe"
    /\ auth' = [auth EXCEPT !.isLoading = TRUE, !.pc = "me"]
    /\ AuthFrame

\* fetchMe: /auth/me is answered (OK with the user, 401, another status, or
\* no answer); init() has run
FetchMeAnswered ==
    \E resp \in Users \cup {"401", "not_ok", "error"} :
        /\ auth.pc = "me"
        /\ auth' = [auth EXCEPT !.user = IF resp \in Users THEN resp ELSE "null",
                                !.isLoading = FALSE,
                                !.pc = "ready"]
        /\ AuthFrame

AuthCall(op, username) == [op |-> op, username |-> username, pc |-> "request"]

AuthCallStart(c) ==
    /\ Len(calls) < MaxWebCalls
    /\ \A i \in 1..Len(calls) : calls[i].pc = "done"
    /\ calls' = Append(calls, c)
    /\ UNCHANGED <<sessions, activeSessionId, backend, wnow, auth, page, queueVars,
                   indexerVars, watcherVars, flushVars, rootVars, lifeVars, callVars,
                   trackVars>>

\* login(username, password) from the LoginPage
Login == \E u \in Users : Screen = "login" /\ AuthCallStart(AuthCall("login", u))

\* logout() from the Layout
Logout == Screen = "layout" /\ AuthCallStart(AuthCall("logout", "null"))

\* login: OK sets the user; otherwise the call throws and the store is as it was
LoginAnswered(i) ==
    \E resp \in Responses :
        /\ calls[i].op = "login" /\ calls[i].pc = "request"
        /\ auth' = IF resp = "ok" THEN [auth EXCEPT !.user = calls[i].username] ELSE auth
        /\ calls' = [calls EXCEPT ![i].pc = "done"]
        /\ UNCHANGED <<sessions, activeSessionId, backend, wnow, page, queueVars,
                       indexerVars, watcherVars, flushVars, rootVars, lifeVars,
                       callVars, trackVars>>

\* logout: whatever the answer, set({ user: null })
LogoutAnswered(i) ==
    \E resp \in Responses :
        /\ calls[i].op = "logout" /\ calls[i].pc = "request"
        /\ auth' = [auth EXCEPT !.user = "null"]
        /\ calls' = [calls EXCEPT ![i].pc = "done"]
        /\ UNCHANGED <<sessions, activeSessionId, backend, wnow, page, queueVars,
                       indexerVars, watcherVars, flushVars, rootVars, lifeVars,
                       callVars, trackVars>>

AuthNext ==
    \/ AppMount
    \/ CheckMode
    \/ FetchMe
    \/ FetchMeAnswered
    \/ Login
    \/ Logout
    \/ \E i \in 1..Len(calls) : LoginAnswered(i) \/ LogoutAnswered(i)

SpecAuth == Init /\ [][AuthNext]_vars

\* C38: once init() has run checkMode and fetchMe, whatever the answers of
\* /settings/mode and /auth/me, isLoading is false and isRemote is not null,
\* so the app shows the LoginPage exactly when isRemote is true and user is
\* null, and the Layout otherwise.
C38_StartupLeavesLoading ==
    auth.pc = "ready" =>
        /\ auth.isLoading = FALSE
        /\ auth.isRemote # "null"
        /\ Screen = IF auth.isRemote = "true" /\ auth.user = "null"
                    THEN "login" ELSE "layout"

\* the state a not-OK /settings/mode leaves: init() has run, isLoading is
\* false, isRemote is still null and the app shows the spinner
C38_SpinnerForever ==
    /\ auth.pc = "ready"
    /\ auth.isLoading = FALSE
    /\ auth.isRemote = "null"
    /\ Screen = "spinner"
    /\ ~ ENABLED AuthNext


(***************************************************************************)
(* Web client: ConversationPage.handleSubmit and the store's message       *)
(* actions. The response of /run_sse is read event by event                *)
(***************************************************************************)
MaxSubmits == 2        \* submits of the page
MaxStreamEvents == 2   \* events read from one response

ChunkIds == {"c1"}
NoResponseText == "No response received."
ErrorTexts == {"Error: Request failed", "Error: No response body", "Error: read failed"}

\* addMessage(sessionId, message)
AddMessage(ss, sessionId, message, t) ==
    [i \in 1..Len(ss) |->
        IF ss[i].id # sessionId THEN ss[i]
        ELSE [ss[i] EXCEPT !.messages = Append(@, message), !.updatedAt = t]]

\* updateLastMessage(sessionId, content)
UpdateLastMessage(ss, sessionId, content, t) ==
    [i \in 1..Len(ss) |->
        IF ss[i].id # sessionId THEN ss[i]
        ELSE [ss[i] EXCEPT
                !.messages = IF Len(@) > 0
                             THEN [@ EXCEPT ![Len(@)].content = content]
                             ELSE @,
                !.updatedAt = t]]

\* updateMessageSources(sessionId, messageIndex, sources): messageIndex counts from 0
UpdateMessageSources(ss, sessionId, messageIndex, sources, t) ==
    [i \in 1..Len(ss) |->
        IF ss[i].id # sessionId THEN ss[i]
        ELSE [ss[i] EXCEPT
                !.messages = IF messageIndex >= 0 /\ messageIndex < Len(@)
                             THEN [@ EXCEPT ![messageIndex + 1].sources = sources]
                             ELSE @,
                !.updatedAt = t]]

\* getActiveSession()?.messages || []
MessagesOf(ss, id) ==
    IF id \in Ids(ss) THEN (CHOOSE s \in Range(ss) : s.id = id).messages ELSE <<>>

\* mutant: the index of the user message
AssistantMsgIndex_User(messages) == Len(messages)

\* handleSubmit: const assistantMsgIndex = messages.length + 1
AssistantMsgIndex(messages) == Len(messages) + 1

SubmitFrame ==
    UNCHANGED <<activeSessionId, backend, calls, wnow, auth, queueVars, indexerVars,
                watcherVars, flushVars, rootVars, lifeVars, callVars, trackVars>>

\* agentInfo?.features?.has_sources_panel ?? false
HasSourcesPanel(agentName) == agentName = "a1"

\* handleSubmit up to the request: the guard, the user message, the placeholder
Submit ==
    \E s \in Range(sessions) :
        /\ s.id = activeSessionId             \* otherwise the AgentLauncher is shown
        /\ page.submits < MaxSubmits
        /\ ~ page.isLoading
        /\ activeSessionId # 0
        /\ LET user == [role |-> "user", content |-> "q", sources |-> {}]
               placeholder == [role |-> "assistant", content |-> "", sources |-> {}]
           IN  sessions' = AddMessage(AddMessage(sessions, activeSessionId, user, wnow),
                                      activeSessionId, placeholder, wnow)
        /\ page' = [isLoading |-> TRUE, pc |-> "request", sessionId |-> activeSessionId,
                    assistantMsgIndex |->
                        AssistantMsgIndex(MessagesOf(sessions, activeSessionId)),
                    assistantContent |-> "", collectedSources |-> {},
                    hasSourcesPanel |-> HasSourcesPanel(s.agentName), events |-> 0,
                    submits |-> page.submits + 1]
        /\ SubmitFrame

\* catch: updateLastMessage(sessionId, `Error: ...`); finally: setIsLoading(false)
SubmitCatch(text) ==
    /\ sessions' = UpdateLastMessage(sessions, page.sessionId, text, wnow)
    /\ page' = [page EXCEPT !.isLoading = FALSE, !.pc = "idle"]
    /\ SubmitFrame

\* the request is answered: OK with a body, OK without one, not OK, or it fails
SubmitAnswered ==
    /\ page.pc = "request"
    /\ \/ page' = [page EXCEPT !.pc = "stream"] /\ UNCHANGED sessions /\ SubmitFrame
       \/ \E text \in {"Error: Request failed", "Error: No response body"} :
            SubmitCatch(text)

\* an event with a text part: partial === false replaces the content, otherwise
\* the text is appended
StreamText ==
    \E final \in BOOLEAN :
        /\ page.pc = "stream" /\ page.events < MaxStreamEvents
        /\ LET content == IF final THEN "t" ELSE page.assistantContent \o "t"
           IN  /\ sessions' = UpdateLastMessage(sessions, page.sessionId, content, wnow)
               /\ page' = [page EXCEPT !.assistantContent = content,
                                       !.events = @ + 1]
        /\ SubmitFrame

\* an event with the response of search_chunks or keyword_search
StreamSources ==
    \E results \in (SUBSET ChunkIds) \ {{}} :
        /\ page.pc = "stream" /\ page.events < MaxStreamEvents
        /\ page' = [page EXCEPT
                       !.collectedSources = IF page.hasSourcesPanel
                                            THEN @ \cup results ELSE @,
                       !.events = @ + 1]
        /\ UNCHANGED sessions
        /\ SubmitFrame

\* an event whose content is a string, possibly empty
StreamString ==
    \E str \in {"", "t"} :
        /\ page.pc = "stream" /\ page.events < MaxStreamEvents
        /\ LET content == page.assistantContent \o str
           IN  /\ sessions' = UpdateLastMessage(sessions, page.sessionId, content, wnow)
               /\ page' = [page EXCEPT !.assistantContent = content,
                                       !.events = @ + 1]
        /\ SubmitFrame

\* reader.read() throws
StreamFail ==
    /\ page.pc = "stream"
    /\ SubmitCatch("Error: read failed")

\* the stream is done: the fallback text, the sources, finally
StreamDone ==
    /\ page.pc = "stream"
    /\ LET s1 == IF page.assistantContent = ""
                 THEN UpdateLastMessage(sessions, page.sessionId, NoResponseText, wnow)
                 ELSE sessions
           s2 == IF page.collectedSources # {}
                 THEN UpdateMessageSources(s1, page.sessionId, page.assistantMsgIndex,
                                           page.collectedSources, wnow)
                 ELSE s1
       IN  sessions' = s2
    /\ page' = [page EXCEPT !.isLoading = FALSE, !.pc = "idle"]
    /\ SubmitFrame

\* the AgentLauncher and the sidebar while the page is open: a conversation
\* is started once with each agent, one call at a time and before the first
\* submit, and a listed session is selected at any time
SubmitSidebar ==
    \/ \E a \in Agents :
        /\ page.submits = 0
        /\ \A i \in 1..Len(calls) : calls[i].pc = "done" /\ calls[i].agentName # a
        /\ CallStart(StoreCall("createSession", a, 0))
    \/ SelectSession
    \/ \E i \in 1..Len(calls) : CreatePost(i) \/ CreateSet(i)

SubmitNext ==
    \/ Submit
    \/ SubmitAnswered
    \/ StreamText
    \/ StreamSources
    \/ StreamString
    \/ StreamFail
    \/ StreamDone
    \/ SubmitSidebar

SpecSubmit == Init /\ [][SubmitNext]_vars

\* this step is the end of a submit
SubmitEnds == page.pc # "idle" /\ page'.pc = "idle"

====
